---- MODULE Spec2Model ----
(***************************************************************************)
(* League Manager / Referee coordination of mcp-league.                    *)
(*                                                                         *)
(* The League Manager (LM) serves its handlers on one cooperative event    *)
(* loop: a handler runs without interruption up to its next awaited        *)
(* client.post, where any other handler may run.  Every action below is    *)
(* one such uninterrupted block.  Agent ids are the strings the code       *)
(* formats ("P01", "REF01"), registries and standings are the insertion-   *)
(* ordered dicts of the code, written as sequences of records.             *)
(***************************************************************************)
EXTENDS Integers, Sequences, FiniteSets, Bags, TLC

\* ------------------------------------------------------------------ bounds
MaxPlayers == 3
MaxReferees == 1
MaxReports == 3
MaxInFlight == 2
MaxSchedulePlayers == 5
MaxAnnouncePlayers == 4
MaxAnnounceReferees == 2
MaxPlayed == 2

\* --------------------------------------------------------------- constants
LeagueId == "league_2025_even_odd"
None == "None"
UnscheduledMatchId == "R9M9"

VARIABLES
    registered_players,   \* LeagueManager.registered_players (dict, insertion order)
    registered_referees,  \* LeagueManager.registered_referees
    auth_tokens,          \* LeagueManager.auth_tokens: agent_id -> token
    current_round,        \* LeagueManager.current_round
    total_rounds,         \* LeagueManager.total_rounds
    matches_by_round,     \* LeagueManager.matches_by_round: round -> list of match dicts
    completed_matches,    \* LeagueManager.completed_matches
    league_started,       \* LeagueManager.league_started
    standings,            \* StandingsRepository._standings (dict, insertion order)
    handlers,             \* bag of the LM coroutines suspended at an awaited post
    refereeFaults,        \* ids of the referees whose announcement handler raised (observation)
    rcEmitted,            \* round -> number of ROUND_COMPLETED messages built (observation)
    lcEmitted,            \* number of LEAGUE_COMPLETED messages built (observation)
    annSent,              \* <<agent_id, round>> -> number of ROUND_ANNOUNCEMENT posts (observation)
    issuedPlayers,        \* (id, token) of each LEAGUE_REGISTER_RESPONSE, in order (observation)
    issuedReferees,       \* (id, token) of each REFEREE_REGISTER_RESPONSE, in order (observation)
    ingested,             \* the (match_id, result) pairs ingested so far (observation)
    reports,              \* number of MATCH_RESULT_REPORTs received (observation)
    startReply,           \* what this step answered a START_LEAGUE with at once (observation)
    lastUpdate,           \* the update_match_result call made in this step (observation)
    updateBuilt,          \* the LEAGUE_STANDINGS_UPDATE built in this step (observation)
    game,                 \* the match task of a referee: GameManager.run_game and its locals
    wire,                 \* an envelope on its way through a receiver: validation, handler, reply
    refereeState,         \* a Referee: its active set, the closures and tasks of its handler
    player,               \* a Player: its current_game and its history
    retry                 \* a call of retry_with_backoff: attempts made, delays slept, outcome

lmState == <<registered_players, registered_referees, auth_tokens, current_round,
             total_rounds, matches_by_round, completed_matches, league_started,
             standings>>

vars == <<registered_players, registered_referees, auth_tokens, current_round,
          total_rounds, matches_by_round, completed_matches, league_started,
          standings, handlers, refereeFaults, rcEmitted, lcEmitted, annSent,
          issuedPlayers, issuedReferees, ingested, reports, startReply,
          lastUpdate, updateBuilt, game, wire, refereeState,
          player, retry>>

\* the state outside the League Manager
peers == <<game, wire, refereeState, player, retry>>

observations == <<refereeFaults, rcEmitted, lcEmitted, annSent, issuedPlayers,
                  issuedReferees, ingested, reports, startReply, lastUpdate,
                  updateBuilt>>

\* ----------------------------------------------------------------- helpers
Min(a, b) == IF a < b THEN a ELSE b

\* f"{n:02d}"
Format02d(n) == IF n < 10 THEN "0" \o ToString(n) ELSE ToString(n)

\* handlers.py:69  f"P{len(self.manager.registered_players) + 1:02d}"
PlayerIdOf(n) == "P" \o Format02d(n)

\* handlers.py:34  f"REF{len(self.manager.registered_referees) + 1:02d}"
RefereeIdOf(n) == "REF" \o Format02d(n)

Keys(d) == {d[i].agent_id : i \in 1..Len(d)}

\* dict[key] = value: an existing key keeps its position and gets the new
\* value, a new key is appended.
DictSet(d, rec) ==
    IF rec.agent_id \in Keys(d)
    THEN [i \in 1..Len(d) |-> IF d[i].agent_id = rec.agent_id THEN rec ELSE d[i]]
    ELSE Append(d, rec)

DictGet(d, key) == d[CHOOSE i \in 1..Len(d) : d[i].agent_id = key]

\* main.py:103  f"tok_{agent_id}_{md5(agent_id + league_id).hexdigest()[:8]}"
TokenOf(agent_id) ==
    [prefix |-> "tok", agent_id |-> agent_id, digest |-> <<agent_id, LeagueId>>]

\* main.py:104  self.auth_tokens[agent_id] = token
generate_auth_token(tokens, agent_id) ==
    [a \in DOMAIN tokens \cup {agent_id} |->
        IF a = agent_id THEN TokenOf(agent_id) ELSE tokens[a]]

\* The agents' own endpoints: the referee of main.py:96 registers
\* "http://localhost:{port}/mcp"; an endpoint is written as its port digits.
RefereePort(k) == <<8, 0, 0, k>>
PlayerPort(k) == <<8, 1, 0, k>>
EndpointOf(port) == [host |-> "localhost", port |-> port, path |-> "/mcp"]

\* a missing or empty contact_endpoint / match endpoint
NoEndpoint == [host |-> "", port |-> <<>>, path |-> ""]

\* the id formed from the count before it is incremented
NextPlayerId_Stale == PlayerIdOf(Len(registered_players))

NextPlayerId == PlayerIdOf(Len(registered_players) + 1)

NextRefereeId == RefereeIdOf(Len(registered_referees) + 1)

\* an error table that lacks the code
get_error_description_Missing(error_code) == "UNKNOWN_ERROR"

\* error_codes.py:47-73  ERROR_DESCRIPTIONS
get_error_description(error_code) ==
    CASE error_code = "E005" -> "NOT_ENOUGH_PLAYERS"
      [] error_code = "E012" -> "AUTH_TOKEN_INVALID"
      [] error_code = "E018" -> "MATCH_NOT_FOUND"
      [] error_code = "E021" -> "LEAGUE_ALREADY_STARTED"
      [] OTHER -> "UNKNOWN_ERROR"

\* error_codes.py:81-93  create_error_message ("context or {}")
create_error_message(error_code, original_message_type, context) ==
    [error_code |-> error_code,
     error_description |-> get_error_description(error_code),
     original_message_type |-> original_message_type,
     context |-> context]

\* this step built no message of the kind
NoMessage == [message_type |-> ""]

\* this step did not call update_match_result
NoUpdate == [called |-> FALSE]

\* this step returned no reply to a START_LEAGUE
NoReply == [message_type |-> "", error_code |-> ""]

\* no match task has been created
NoGame == [pc |-> "idle"]

\* no envelope is on its way
NoExchange == [stage |-> "none"]

\* no Referee has been constructed
NoReferee == [constructed |-> FALSE]

\* no Player has been constructed
NoPlayer == [constructed |-> FALSE]

\* retry_with_backoff has not been called
NoCall == [pc |-> "idle"]

\* ------------------------------------------------------------- scheduler
\* itertools.combinations(player_ids, 2): the index pairs i < j of the list
\* in lexicographic order.
IndexPairs(n) == {p \in (1..n) \X (1..n) : p[1] < p[2]}

PairRank(p, n) ==
    Cardinality({q \in IndexPairs(n) :
                    q[1] < p[1] \/ (q[1] = p[1] /\ q[2] < p[2])}) + 1

\* a pairing that only matches neighbours of the list
combinations_Adjacent(player_ids) ==
    [k \in 1..(Len(player_ids) - 1) |-> <<player_ids[k], player_ids[k + 1]>>]

combinations(player_ids) ==
    LET n == Len(player_ids)
    IN  [k \in 1..Cardinality(IndexPairs(n)) |->
            LET p == CHOOSE q \in IndexPairs(n) : PairRank(q, n) = k
            IN  <<player_ids[p[1]], player_ids[p[2]]>>]

\* one match per round
matches_per_round_One(n) == 1

\* a round capacity rounded up instead of down
matches_per_round_Ceil(n) == (n + 1) \div 2

\* scheduler.py:38
matches_per_round(n) == IF n % 2 = 0 THEN n \div 2 ELSE (n - 1) \div 2

\* scheduler.py:47  f"R{round_num}M{match_num}"
MatchIdOf(round_num, match_num) ==
    "R" \o ToString(round_num) \o "M" \o ToString(match_num)

\* scheduler.py:46-52  the match dict appended for pairs[i + j]
NewMatch(pair, round_num, match_num) ==
    [match_id |-> MatchIdOf(round_num, match_num),
     game_type |-> "even_odd",
     player_A_id |-> pair[1],
     player_B_id |-> pair[2],
     referee_endpoint |-> NoEndpoint,
     player_A_endpoint |-> NoEndpoint,
     player_B_endpoint |-> NoEndpoint]

\* scheduler.py:43-52  for j in range(matches_per_round): the matches of one
\* round, from inner index j on (i and j are the 0-based indices of the code)
RECURSIVE round_matches_from(_, _, _, _, _, _, _)
round_matches_from(pairs, i, j, c, round_num, match_num, round_matches) ==
    IF j >= c THEN round_matches
    ELSE IF i + j < Len(pairs)
    THEN round_matches_from(pairs, i, j + 1, c, round_num, match_num + 1,
                            Append(round_matches,
                                   NewMatch(pairs[i + j + 1], round_num, match_num)))
    ELSE round_matches_from(pairs, i, j + 1, c, round_num, match_num, round_matches)

\* scheduler.py:41-56  for i in range(0, len(pairs), matches_per_round): the
\* schedule dict, whose keys are 1, 2, ... in insertion order, is a sequence
RECURSIVE schedule_from(_, _, _, _, _, _)
schedule_from(pairs, i, c, round_num, match_num, schedule) ==
    IF i >= Len(pairs) THEN schedule
    ELSE LET round_matches ==
                 round_matches_from(pairs, i, 0, c, round_num, match_num, <<>>)
         IN  IF round_matches # <<>>
             THEN schedule_from(pairs, i + c, c, round_num + 1,
                                match_num + Len(round_matches),
                                Append(schedule, round_matches))
             ELSE schedule_from(pairs, i + c, c, round_num,
                                match_num + Len(round_matches), schedule)

\* scheduler.py:10-58  generate_schedule
generate_schedule(player_ids) ==
    LET n == Len(player_ids)
    IN  IF n < 2 THEN <<>>
        ELSE schedule_from(combinations(player_ids), 0, matches_per_round(n),
                           1, 1, <<>>)

MatchIdsOf(schedule) ==
    UNION {{schedule[r][j].match_id : j \in DOMAIN schedule[r]} : r \in DOMAIN schedule}

\* matches_by_round.get(round_id, [])
RoundMatches(round_id) ==
    IF round_id \in DOMAIN matches_by_round THEN matches_by_round[round_id] ELSE <<>>

ScheduledMatchIds == MatchIdsOf(matches_by_round)

\* The ids and rounds any league of at most MaxPlayers players can have.
PlayerIdsUpTo(n) == [k \in 1..n |-> PlayerIdOf(k)]

RoundsUniverse == IF MaxPlayers % 2 = 0 THEN MaxPlayers - 1 ELSE MaxPlayers

AgentIdsUniverse ==
    {PlayerIdOf(k) : k \in 1..MaxPlayers} \cup {RefereeIdOf(k) : k \in 1..MaxReferees}

MatchIdsUniverse ==
    UNION {MatchIdsOf(generate_schedule(PlayerIdsUpTo(n))) : n \in 2..MaxPlayers}
        \cup {UnscheduledMatchId}

EmptyDict == [a \in {} |-> None]

\* ------------------------------------------------------------- standings
\* repositories.py:59-67  initialize_player
initialize_player(st, player_id) ==
    IF player_id \in {st[i].player_id : i \in 1..Len(st)} THEN st
    ELSE Append(st, [player_id |-> player_id, rank |-> 0, played |-> 0,
                     wins |-> 0, draws |-> 0, losses |-> 0, points |-> 0])

\* a lookup that never finds the key
ScoreGet_NoLookup(score, player_id, default) == default

\* score.get(player_id, default)
ScoreGet(score, player_id, default) ==
    IF player_id \in DOMAIN score THEN score[player_id] ELSE default

\* repositories.py:77-93: one pass of the loop body for player_id
ApplyResult(st, player_id, winner, score) ==
    [i \in 1..Len(st) |->
        IF st[i].player_id # player_id THEN st[i]
        ELSE IF winner = player_id
             THEN [st[i] EXCEPT !.played = @ + 1, !.wins = @ + 1,
                                !.points = @ + ScoreGet(score, player_id, 3)]
        ELSE IF winner = None
             THEN [st[i] EXCEPT !.played = @ + 1, !.draws = @ + 1,
                                !.points = @ + ScoreGet(score, player_id, 1)]
        ELSE [st[i] EXCEPT !.played = @ + 1, !.losses = @ + 1,
                           !.points = @ + ScoreGet(score, player_id, 0)]]

\* the sort key of repositories.py:101: (-points, -wins, losses)
KeyLess(a, b) ==
    \/ a.points > b.points
    \/ a.points = b.points /\ a.wins > b.wins
    \/ a.points = b.points /\ a.wins = b.wins /\ a.losses < b.losses

KeyEqual(a, b) == a.points = b.points /\ a.wins = b.wins /\ a.losses = b.losses

\* repositories.py:97-104  _update_ranks: sorted() is stable, so equal keys
\* keep the dict's insertion order.
_update_ranks(st) ==
    [i \in 1..Len(st) |->
        [st[i] EXCEPT !.rank =
            1 + Cardinality({j \in 1..Len(st) : KeyLess(st[j], st[i])})
              + Cardinality({j \in 1..(i - 1) : KeyEqual(st[j], st[i])})]]

\* repositories.py:69-95  update_match_result
update_match_result(st, player_A_id, player_B_id, winner, score) ==
    _update_ranks(ApplyResult(ApplyResult(st, player_A_id, winner, score),
                              player_B_id, winner, score))

\* the number k of the player id "P" k
PlayerNumber(player_id) ==
    CHOOSE k \in 1..Len(standings) + MaxPlayers : PlayerIdOf(k) = player_id

\* repositories.py:106-111  get_standings: sorted by (rank, player_id)
SortsBefore(a, b) ==
    \/ a.rank < b.rank
    \/ a.rank = b.rank /\ PlayerNumber(a.player_id) < PlayerNumber(b.player_id)

get_standings(st) ==
    [k \in 1..Len(st) |->
        st[CHOOSE i \in 1..Len(st) :
              Cardinality({j \in 1..Len(st) : SortsBefore(st[j], st[i])}) = k - 1]]

\* ---------------------------------------------------------------- initial
\* main.py:55-63  LeagueManager.__init__ (a fresh data directory: no
\* standings file to load)
Init ==
    /\ registered_players = <<>>
    /\ registered_referees = <<>>
    /\ auth_tokens = EmptyDict
    /\ current_round = 0
    /\ total_rounds = 0
    /\ matches_by_round = <<>>
    /\ completed_matches = {}
    /\ league_started = FALSE
    /\ standings = <<>>
    /\ handlers = EmptyBag
    /\ refereeFaults = {}
    /\ rcEmitted = [r \in 1..RoundsUniverse |-> 0]
    /\ lcEmitted = 0
    /\ annSent = [t \in AgentIdsUniverse \X (1..RoundsUniverse) |-> 0]
    /\ issuedPlayers = <<>>
    /\ issuedReferees = <<>>
    /\ ingested = {}
    /\ reports = 0
    /\ game = NoGame
    /\ wire = NoExchange
    /\ refereeState = NoReferee
    /\ player = NoPlayer
    /\ retry = NoCall
    /\ startReply = NoReply
    /\ lastUpdate = NoUpdate
    /\ updateBuilt = NoMessage

\* the event loop serves at most MaxInFlight suspended coroutines
CanAccept == BagCardinality(handlers) < MaxInFlight

Suspended == BagToSet(handlers)

\* a handler that has just been entered and has not awaited yet
NewCoroutine ==
    [pc |-> "new", mtype |-> None, match_id |-> None, idx |-> 0, n0 |-> 0, round |-> 0]

\* coroutine h suspends at its next await as g (h is in the bag unless new)
Resume(h, g) == handlers' = (handlers (-) SetToBag({h})) (+) SetToBag({g})

\* main.py:85-98: the handler has returned its reply, or the exception that
\* left it has been turned into a JSON-RPC error; the coroutine is gone
Returns(h) == handlers' = handlers (-) SetToBag({h})

\* ---------------------------------------------------------- registration
\* handlers.py:31-57  handle_referee_register (no await: one block)
handle_referee_register(endpoint) ==
    /\ Len(registered_referees) < MaxReferees
    /\ LET referee_id == NextRefereeId
       IN  /\ registered_referees' =
                DictSet(registered_referees,
                        [agent_id |-> referee_id, contact_endpoint |-> endpoint])
           /\ auth_tokens' = generate_auth_token(auth_tokens, referee_id)
           /\ issuedReferees' = Append(issuedReferees,
                                       [id |-> referee_id, token |-> auth_tokens'[referee_id],
                                        endpoint |-> endpoint])
    /\ UNCHANGED <<registered_players, current_round, total_rounds, matches_by_round,
                   completed_matches, league_started, standings, handlers,
                   refereeFaults, rcEmitted, lcEmitted, annSent, issuedPlayers,
                   ingested, reports>>
    /\ UNCHANGED peers
    /\ startReply' = NoReply
    /\ lastUpdate' = NoUpdate
    /\ updateBuilt' = NoMessage

\* handlers.py:59-92  handle_player_register (no await: one block)
handle_player_register(endpoint) ==
    /\ Len(registered_players) < MaxPlayers
    /\ LET player_id == NextPlayerId
       IN  /\ registered_players' =
                DictSet(registered_players,
                        [agent_id |-> player_id, contact_endpoint |-> endpoint])
           /\ auth_tokens' = generate_auth_token(auth_tokens, player_id)
           /\ issuedPlayers' = Append(issuedPlayers,
                                      [id |-> player_id, token |-> auth_tokens'[player_id],
                                       endpoint |-> endpoint])
    /\ UNCHANGED <<registered_referees, current_round, total_rounds, matches_by_round,
                   completed_matches, league_started, standings, handlers,
                   refereeFaults, rcEmitted, lcEmitted, annSent, issuedReferees,
                   ingested, reports>>
    /\ UNCHANGED peers
    /\ startReply' = NoReply
    /\ lastUpdate' = NoUpdate
    /\ updateBuilt' = NoMessage

\* ------------------------------------------------------ round announcement
\* an assignment that gives every match the first referee
PopulateEndpoints_FirstReferee(matches) ==
    [i \in 1..Len(matches) |->
        LET m == matches[i]
            withRef == IF Len(registered_referees) > 0
                       THEN [m EXCEPT !.referee_endpoint =
                               registered_referees[1].contact_endpoint]
                       ELSE m
            withA == IF m.player_A_id \in Keys(registered_players)
                     THEN [withRef EXCEPT !.player_A_endpoint =
                             DictGet(registered_players, m.player_A_id).contact_endpoint]
                     ELSE withRef
        IN  IF m.player_B_id \in Keys(registered_players)
            THEN [withA EXCEPT !.player_B_endpoint =
                    DictGet(registered_players, m.player_B_id).contact_endpoint]
            ELSE withA]

\* handlers.py:268-285: the endpoints written into the round's match dicts
PopulateEndpoints(matches) ==
    [i \in 1..Len(matches) |->
        LET m == matches[i]
            R == Len(registered_referees)
            withRef == IF R > 0
                       THEN [m EXCEPT !.referee_endpoint =
                               registered_referees[((i - 1) % R) + 1].contact_endpoint]
                       ELSE m
            withA == IF m.player_A_id \in Keys(registered_players)
                     THEN [withRef EXCEPT !.player_A_endpoint =
                             DictGet(registered_players, m.player_A_id).contact_endpoint]
                     ELSE withRef
        IN  IF m.player_B_id \in Keys(registered_players)
            THEN [withA EXCEPT !.player_B_endpoint =
                    DictGet(registered_players, m.player_B_id).contact_endpoint]
            ELSE withA]

\* handlers.py:265: matches = self.manager.matches_by_round.get(round_id, [])
\* is the list the schedule holds, so the endpoints stay in the schedule
AnnouncedSchedule(schedule, round_id) ==
    IF round_id \in DOMAIN schedule
    THEN [schedule EXCEPT ![round_id] = PopulateEndpoints(schedule[round_id])]
    ELSE schedule

Bump(f, x) == [f EXCEPT ![x] = @ + 1]

\* handlers.py:287-300  _announce_round from the built announcement to its
\* first awaited post: the referees are posted to first, then the players
\* (a started league has at least two).
BeginAnnounce(h, mtype, match_id, round_id) ==
    IF Len(registered_referees) > 0
    THEN /\ Resume(h,
                [pc |-> "announce_referees", mtype |-> mtype, match_id |-> match_id,
                 idx |-> 1, n0 |-> Len(registered_referees), round |-> round_id])
         /\ annSent' = Bump(annSent, <<registered_referees[1].agent_id, round_id>>)
    ELSE /\ Resume(h,
                [pc |-> "announce_players", mtype |-> mtype, match_id |-> match_id,
                 idx |-> 1, n0 |-> Len(registered_players), round |-> round_id])
         /\ annSent' = Bump(annSent, <<registered_players[1].agent_id, round_id>>)

\* ------------------------------------------------------------ START_LEAGUE
\* main.py:119-126: standings for the registered players, in registry order
RECURSIVE InitializeAll(_, _, _)
InitializeAll(st, player_ids, k) ==
    IF k > Len(player_ids) THEN st
    ELSE InitializeAll(initialize_player(st, player_ids[k]), player_ids, k + 1)

\* handlers.py:234  list(self.manager.registered_players.keys())
RegisteredPlayerIds == [i \in 1..Len(registered_players) |-> registered_players[i].agent_id]

\* main.py:119-126: standings only for the player_ids that are registered
RECURSIVE InitializeRegistered(_, _, _)
InitializeRegistered(st, player_ids, k) ==
    IF k > Len(player_ids) THEN st
    ELSE InitializeRegistered(
             IF player_ids[k] \in Keys(registered_players)
             THEN initialize_player(st, player_ids[k]) ELSE st,
             player_ids, k + 1)

\* main.py:111-135  LeagueManager.start_league(player_ids); the ValueError
\* of a started league or of fewer than two ids leaves the manager as it was
start_league(player_ids) ==
    /\ IF league_started \/ Len(player_ids) < 2
       THEN UNCHANGED <<standings, total_rounds, matches_by_round,
                        league_started, current_round>>
       ELSE LET schedule == generate_schedule(player_ids)
            IN  /\ standings' = InitializeRegistered(standings, player_ids, 1)
                /\ total_rounds' = Len(schedule)
                /\ matches_by_round' = schedule
                /\ league_started' = TRUE
                /\ current_round' = 1
    /\ UNCHANGED peers
    /\ startReply' = NoReply
    /\ lastUpdate' = NoUpdate
    /\ updateBuilt' = NoMessage
    /\ UNCHANGED <<registered_players, registered_referees, auth_tokens,
                   completed_matches, handlers, refereeFaults, rcEmitted,
                   lcEmitted, annSent, issuedPlayers, issuedReferees, ingested,
                   reports>>

\* a START_LEAGUE handler that schedules again although the league is running
handle_start_league_Restart ==
    /\ Len(registered_players) >= 2
    /\ CanAccept
    /\ LET schedule == generate_schedule(RegisteredPlayerIds)
       IN  /\ standings' = InitializeAll(standings, RegisteredPlayerIds, 1)
           /\ total_rounds' = Len(schedule)
           /\ league_started' = TRUE
           /\ current_round' = 1
           /\ matches_by_round' = AnnouncedSchedule(schedule, 1)
           /\ BeginAnnounce(NewCoroutine, "START_LEAGUE", None, 1)
    /\ lastUpdate' = NoUpdate
    /\ updateBuilt' = NoMessage
    /\ UNCHANGED peers
    /\ startReply' =
          IF league_started
          THEN [message_type |-> "LEAGUE_STATUS", error_code |-> "",
                status |-> "running", current_round |-> current_round,
                total_rounds |-> total_rounds,
                matches_completed |-> Cardinality(completed_matches)]
          ELSE NoReply
    /\ UNCHANGED <<registered_players, registered_referees, auth_tokens,
                   completed_matches, refereeFaults, rcEmitted, lcEmitted,
                   issuedPlayers, issuedReferees, ingested, reports>>

\* handlers.py:210-261  handle_start_league, up to its first awaited post
\* (with main.py:111-135 start_league); the LEAGUE_STATUS of a started
\* league and the LEAGUE_ERROR for fewer than two players change nothing
handle_start_league ==
    /\ IF league_started \/ Len(registered_players) < 2
       THEN UNCHANGED <<current_round, total_rounds, matches_by_round,
                        league_started, standings, handlers, annSent>>
       ELSE LET schedule == generate_schedule(RegisteredPlayerIds)
            IN  /\ CanAccept
                /\ standings' = InitializeAll(standings, RegisteredPlayerIds, 1)
                /\ total_rounds' = Len(schedule)
                /\ league_started' = TRUE
                /\ current_round' = 1
                /\ matches_by_round' = AnnouncedSchedule(schedule, 1)
                /\ BeginAnnounce(NewCoroutine, "START_LEAGUE", None, 1)
    /\ lastUpdate' = NoUpdate
    /\ updateBuilt' = NoMessage
    /\ UNCHANGED peers
    /\ startReply' =
          IF league_started
          THEN [message_type |-> "LEAGUE_STATUS", error_code |-> "",
                status |-> "running", current_round |-> current_round,
                total_rounds |-> total_rounds,
                matches_completed |-> Cardinality(completed_matches)]
          ELSE IF Len(registered_players) < 2
          THEN LET error_info == create_error_message("E005", "START_LEAGUE", <<>>)
               IN  [message_type |-> "LEAGUE_ERROR",
                    error_code |-> error_info.error_code,
                    error_description |-> error_info.error_description,
                    original_message_type |-> error_info.original_message_type,
                    context |-> [registered_players |-> Len(registered_players),
                                 required |-> 2]]
          ELSE NoReply
    /\ UNCHANGED <<registered_players, registered_referees, auth_tokens,
                   completed_matches, refereeFaults, rcEmitted, lcEmitted,
                   issuedPlayers, issuedReferees, ingested, reports>>

\* ----------------------------------------------------------------- referee
\* referee main.py:25-58  Referee.__init__: the attributes a Referee has
RefereeAttributes ==
    {"referee_id", "league_id", "league_manager_endpoint", "port", "data_dir",
     "log_dir", "logger", "registered", "auth_token", "game_manager", "handler", "app"}

\* referee handlers.py:56  f":{self.referee.port}" in referee_endpoint: the
\* only ':' of an endpoint that digits follow is the one before its port, so
\* the test holds exactly when the referee's port is a prefix of that port.
PortInEndpoint(port, endpoint) ==
    /\ Len(port) <= Len(endpoint.port)
    /\ SubSeq(endpoint.port, 1, Len(port)) = port

\* referee handlers.py:54-96: the first match of the announcement that is
\* assigned to this referee and carries both player endpoints reaches
\* line 70, which reads self.referee.active_games and
\* self.referee.max_concurrent_matches; an attribute the Referee does not
\* have raises AttributeError there, before any match task is created.
RefereeRaises(port, matches) ==
    /\ \E i \in 1..Len(matches) :
          /\ PortInEndpoint(port, matches[i].referee_endpoint)
          /\ matches[i].player_A_endpoint # NoEndpoint
          /\ matches[i].player_B_endpoint # NoEndpoint
    /\ {"active_games", "max_concurrent_matches"} \ RefereeAttributes # {}

\* referee handlers.py:35-102  handle_round_announcement (no await: one
\* block) of the referee registered as referee_id
handle_round_announcement(faults, referee_id, port, matches) ==
    IF RefereeRaises(port, matches) THEN faults \cup {referee_id} ELSE faults

\* ------------------------------------------------- announcement fan-out
\* next() of a dict iterator raises RuntimeError when the dict has changed
\* size since the loop began (the loops of handlers.py:298, 315, 360, 425
\* iterate the registry itself across their awaits).
DictChanged(d, h) == Len(d) # h.n0

\* handlers.py:297-311: the post to referee idx has returned (delivered and
\* handled, or failed and logged); the loop goes on to the next referee,
\* then to the first player (handlers.py:314-318)
AnnounceRefereesStep(h, delivered) ==
    /\ h.pc = "announce_referees"
    /\ refereeFaults' =
          IF delivered
          THEN LET referee == registered_referees[h.idx]
               IN  handle_round_announcement(refereeFaults, referee.agent_id,
                                             referee.contact_endpoint.port,
                                             RoundMatches(h.round))
          ELSE refereeFaults
    /\ IF DictChanged(registered_referees, h)
       THEN /\ Returns(h)
            /\ UNCHANGED annSent
       ELSE IF h.idx < h.n0
       THEN /\ Resume(h, [h EXCEPT !.idx = @ + 1])
            /\ annSent' = Bump(annSent, <<registered_referees[h.idx + 1].agent_id,
                                          h.round>>)
       ELSE /\ Resume(h, [h EXCEPT !.pc = "announce_players", !.idx = 1,
                                       !.n0 = Len(registered_players)])
            /\ annSent' = Bump(annSent, <<registered_players[1].agent_id, h.round>>)
    /\ UNCHANGED <<lmState, rcEmitted, lcEmitted, issuedPlayers, issuedReferees,
                   ingested, reports>>
    /\ UNCHANGED peers
    /\ startReply' = NoReply
    /\ lastUpdate' = NoUpdate
    /\ updateBuilt' = NoMessage

\* handlers.py:314-330: the post to player idx has returned; after the last
\* player the handler returns its reply (LEAGUE_STATUS or MATCH_RESULT_ACK)
AnnouncePlayersStep(h) ==
    /\ h.pc = "announce_players"
    /\ IF DictChanged(registered_players, h)
       THEN /\ Returns(h)
            /\ UNCHANGED annSent
       ELSE IF h.idx < h.n0
       THEN /\ Resume(h, [h EXCEPT !.idx = @ + 1])
            /\ annSent' = Bump(annSent, <<registered_players[h.idx + 1].agent_id,
                                          h.round>>)
       ELSE /\ Returns(h)
            /\ UNCHANGED annSent
    /\ UNCHANGED <<lmState, refereeFaults, rcEmitted, lcEmitted, issuedPlayers,
                   issuedReferees, ingested, reports>>
    /\ UNCHANGED peers
    /\ startReply' = NoReply
    /\ lastUpdate' = NoUpdate
    /\ updateBuilt' = NoMessage

\* ------------------------------------------------------ MATCH_RESULT_REPORT
\* handlers.py:379-385: is every match of the current round completed?
RoundIsComplete(completed) ==
    LET current_round_matches == RoundMatches(current_round)
        completed_in_round ==
            Cardinality({i \in 1..Len(current_round_matches) :
                            current_round_matches[i].match_id \in completed})
    IN  completed_in_round >= Len(current_round_matches)

\* handlers.py:374-390  _check_round_completion up to its first awaited
\* post: either nothing is due and the handler returns MATCH_RESULT_ACK
\* (handlers.py:133-139), or ROUND_COMPLETED is built (handlers.py:400-421)
\* and posted to the players (handlers.py:424-437).
CheckRoundCompletion(h, match_id, completed) ==
    IF league_started /\ RoundIsComplete(completed)
    THEN /\ rcEmitted' = Bump(rcEmitted, current_round)
         /\ Resume(h,
                [pc |-> "round_completed", mtype |-> "MATCH_RESULT_REPORT",
                 match_id |-> match_id,
                 idx |-> 1, n0 |-> Len(registered_players), round |-> current_round])
    ELSE /\ Returns(h)
         /\ UNCHANGED rcEmitted

\* What a report may carry: the match id of any schedule or an id that is
\* in none; result.details.choices names the two players of the scheduled
\* match and is empty for an id that is not scheduled; the winner is the
\* first of them or null (a draw).
MatchPlayers(match_id) ==
    LET pos == {rj \in (DOMAIN matches_by_round) \X (1..MaxPlayers) :
                   /\ rj[2] \in DOMAIN matches_by_round[rj[1]]
                   /\ matches_by_round[rj[1]][rj[2]].match_id = match_id}
    IN  IF pos = {} THEN <<>>
        ELSE LET rj == CHOOSE x \in pos : TRUE
                 m == matches_by_round[rj[1]][rj[2]]
             IN  <<m.player_A_id, m.player_B_id>>

Results(match_id) ==
    LET ps == MatchPlayers(match_id)
    IN  IF ps = <<>>
        THEN { [winner |-> None, points |-> <<>>, choices |-> ps] }
        ELSE { [winner |-> ps[1], points |-> <<3, 0>>, choices |-> ps],
               [winner |-> None, points |-> <<1, 1>>, choices |-> ps] }

\* result.score as the dict player_id -> points
ScoreOf(result) ==
    [p \in {result.choices[i] : i \in 1..Len(result.choices)} |->
        result.points[CHOOSE i \in 1..Len(result.choices) : result.choices[i] = p]]

\* an ingestion that leaves the standings alone
IngestResult_Skip(st, result) == st

\* handlers.py:105-120: the standings after the report
IngestResult(st, result) ==
    IF Len(result.choices) >= 2
    THEN update_match_result(st, result.choices[1], result.choices[2],
                             result.winner, ScoreOf(result))
    ELSE st

\* handlers.py:122-123  self.manager.completed_matches.add(match_id)
MarkCompleted(completed, match_id) == completed \cup {match_id}

\* handlers.py:94-128  handle_match_result up to its first awaited post:
\* the standings are updated, the match id is added, and
\* _send_standings_update (handlers.py:332-372) posts to the players; with
\* no player registered there is nothing to await and the handler runs
\* through _check_round_completion to its reply.  The posts of a loop over
\* the players change nothing at the LM, so the loop is one suspension.
ReportReceived(match_id, result) ==
    /\ CanAccept
    /\ reports < MaxReports
    /\ reports' = reports + 1
    /\ ingested' = ingested \cup {<<match_id, result>>}
    /\ standings' = IngestResult(standings, result)
    /\ completed_matches' = MarkCompleted(completed_matches, match_id)
    /\ IF Len(registered_players) > 0
       THEN /\ Resume(NewCoroutine,
                   [pc |-> "standings_update", mtype |-> "MATCH_RESULT_REPORT",
                    match_id |-> match_id, idx |-> 1,
                    n0 |-> Len(registered_players), round |-> current_round])
            /\ UNCHANGED rcEmitted
       ELSE CheckRoundCompletion(NewCoroutine, match_id, completed_matches')
    /\ UNCHANGED <<registered_players, registered_referees, auth_tokens, current_round,
                   total_rounds, matches_by_round, league_started, refereeFaults,
                   lcEmitted, annSent, issuedPlayers, issuedReferees>>
    /\ startReply' = NoReply
    /\ lastUpdate' =
          IF Len(result.choices) >= 2
          THEN [called |-> TRUE, player_A_id |-> result.choices[1],
                player_B_id |-> result.choices[2], winner |-> result.winner,
                score |-> ScoreOf(result)]
          ELSE NoUpdate
    /\ updateBuilt' =
          [message_type |-> "LEAGUE_STANDINGS_UPDATE", report |-> match_id,
           round_id |-> current_round, standings |-> get_standings(standings')]

\* handlers.py:94-139  handle_match_result, the report coming from outside
\* the modelled match task
handle_match_result(match_id, result) ==
    /\ ReportReceived(match_id, result)
    /\ UNCHANGED peers

\* handlers.py:359-372: the posts of LEAGUE_STANDINGS_UPDATE have returned;
\* _check_round_completion runs (handlers.py:131)
StandingsUpdateStep(h) ==
    /\ h.pc = "standings_update"
    /\ IF DictChanged(registered_players, h)
       THEN /\ Returns(h)
            /\ UNCHANGED rcEmitted
       ELSE CheckRoundCompletion(h, h.match_id, completed_matches)
    /\ UNCHANGED <<lmState, refereeFaults, lcEmitted, annSent, issuedPlayers,
                   issuedReferees, ingested, reports>>
    /\ UNCHANGED peers
    /\ startReply' = NoReply
    /\ lastUpdate' = NoUpdate
    /\ updateBuilt' = NoMessage

\* handlers.py:424-437 and 392-398: the posts of ROUND_COMPLETED have
\* returned; the league is completed (handlers.py:439-466, LEAGUE_COMPLETED
\* built and posted to all_agents) or current_round is incremented and the
\* next round announced
RoundCompletedStep(h) ==
    /\ h.pc = "round_completed"
    /\ IF DictChanged(registered_players, h)
       THEN /\ Returns(h)
            /\ UNCHANGED <<current_round, matches_by_round, lcEmitted, annSent>>
       ELSE IF current_round >= total_rounds
       THEN /\ lcEmitted' = lcEmitted + 1
            /\ Resume(h, [h EXCEPT !.pc = "league_completed", !.idx = 1,
                               !.n0 = Len(registered_players) + Len(registered_referees)])
            /\ UNCHANGED <<current_round, matches_by_round, annSent>>
       ELSE /\ current_round' = current_round + 1
            /\ matches_by_round' = AnnouncedSchedule(matches_by_round, current_round + 1)
            /\ BeginAnnounce(h, h.mtype, h.match_id, current_round + 1)
            /\ UNCHANGED lcEmitted
    /\ UNCHANGED <<registered_players, registered_referees, auth_tokens, total_rounds,
                   completed_matches, league_started, standings, refereeFaults,
                   rcEmitted, issuedPlayers, issuedReferees, ingested, reports>>
    /\ UNCHANGED peers
    /\ startReply' = NoReply
    /\ lastUpdate' = NoUpdate
    /\ updateBuilt' = NoMessage

\* handlers.py:464-478: the posts of LEAGUE_COMPLETED to the all_agents list
\* (a copy: registrations do not disturb it) have returned; the handler
\* returns MATCH_RESULT_ACK
LeagueCompletedStep(h) ==
    /\ h.pc = "league_completed"
    /\ Returns(h)
    /\ UNCHANGED <<lmState, refereeFaults, rcEmitted, lcEmitted, annSent, issuedPlayers,
                   issuedReferees, ingested, reports>>
    /\ UNCHANGED peers
    /\ startReply' = NoReply
    /\ lastUpdate' = NoUpdate
    /\ updateBuilt' = NoMessage

\* ----------------------------------------------------------- auth tokens
\* a LEAGUE_QUERY without auth_token (getattr gives None)
NoToken == [prefix |-> "", agent_id |-> "", digest |-> <<>>]

\* the token of the same agent id computed for another league id
ForgedToken(agent_id) ==
    [prefix |-> "tok", agent_id |-> agent_id, digest |-> <<agent_id, "other_league">>]

\* the tokens a request may carry
TokensUniverse ==
    {TokenOf(a) : a \in AgentIdsUniverse} \cup {ForgedToken(PlayerIdOf(1)), NoToken}

\* main.py:107-109  self.auth_tokens.get(agent_id) == token: an accepted
\* token only has to equal its prefix and agent id
validate_auth_token_Loose(tokens, agent_id, token) ==
    /\ agent_id \in DOMAIN tokens
    /\ tokens[agent_id].prefix = token.prefix

\* main.py:107-109  validate_auth_token
validate_auth_token(tokens, agent_id, token) ==
    IF agent_id \in DOMAIN tokens THEN tokens[agent_id] = token ELSE token = NoToken

\* ------------------------------------------------------------ LEAGUE_QUERY
\* a sender is written as the parts its ':' separate: "player:P01" is
\* <<"player", "P01">>, "P01" is <<"P01">>
\* handlers.py:156  message.sender.split(":")[-1]
SenderId(sender) == sender[Len(sender)]

\* handlers.py:192-199: the first uncompleted match of player_id in a round
FirstOpenMatch(matches, player_id) ==
    LET open == {i \in 1..Len(matches) :
                    /\ player_id \in {matches[i].player_A_id, matches[i].player_B_id}
                    /\ matches[i].match_id \notin completed_matches}
    IN  IF open = {} THEN <<>>
        ELSE <<matches[CHOOSE i \in open : \A j \in open : i <= j]>>

\* handlers.py:192-199: the break leaves only the inner loop, so a later
\* round (up to current_round) replaces what an earlier round has set
NextMatchData(player_id) ==
    LET found == {r \in DOMAIN matches_by_round :
                     r <= current_round
                     /\ FirstOpenMatch(matches_by_round[r], player_id) # <<>>}
    IN  IF found = {} THEN <<>>
        ELSE FirstOpenMatch(
                 matches_by_round[CHOOSE r \in found : \A q \in found : q <= r],
                 player_id)

\* main.py:55-63: the state of the League Manager, by attribute
ManagerState ==
    [registered_players |-> registered_players,
     registered_referees |-> registered_referees,
     auth_tokens |-> auth_tokens,
     current_round |-> current_round,
     total_rounds |-> total_rounds,
     matches_by_round |-> matches_by_round,
     completed_matches |-> completed_matches,
     league_started |-> league_started,
     standings |-> standings]

\* handlers.py:159-208: the reply of handle_league_query, LEAGUE_ERROR when
\* the query is rejected and the requested data otherwise, and the League
\* Manager state it leaves (the handler assigns nothing)
LeagueQueryOutcome(query, rejected) ==
    IF rejected
    THEN LET error_info ==
                 create_error_message("E012", "LEAGUE_QUERY",
                                      [provided_token |-> query.auth_token])
         IN  [reply |-> [message_type |-> "LEAGUE_ERROR",
                         error_code |-> error_info.error_code,
                         error_description |-> error_info.error_description,
                         original_message_type |-> error_info.original_message_type,
                         context |-> error_info.context],
              state |-> ManagerState]
    ELSE [reply |-> [message_type |-> "LEAGUE_QUERY_RESPONSE",
                     query_type |-> query.query_type,
                     success |-> TRUE,
                     standings |-> IF query.query_type = "GET_STANDINGS"
                                   THEN <<get_standings(standings)>> ELSE <<>>,
                     next_match |-> IF query.query_type = "GET_NEXT_MATCH"
                                    THEN NextMatchData(query.player_id) ELSE <<>>],
          state |-> ManagerState]

\* a handler that only looks whether a token is present
handle_league_query_AnyToken(query) ==
    LeagueQueryOutcome(query, query.auth_token = NoToken)

\* handlers.py:141-208  handle_league_query (no await: one block)
\* handlers.py:158  not auth_token or not validate_auth_token(sender_id, auth_token)
handle_league_query(query) ==
    LeagueQueryOutcome(query,
        \/ query.auth_token = NoToken
        \/ ~validate_auth_token(auth_tokens, SenderId(query.sender), query.auth_token))

\* the LEAGUE_QUERYs a client may send
QuerySenders ==
    {<<PlayerIdOf(1)>>, <<PlayerIdOf(2)>>, <<"player", PlayerIdOf(1)>>}

QueryTokens ==
    {TokenOf(PlayerIdOf(1)), TokenOf(PlayerIdOf(2)), ForgedToken(PlayerIdOf(1)), NoToken}

Queries ==
    [sender : QuerySenders, auth_token : QueryTokens,
     query_type : {"GET_STANDINGS"}, player_id : {None}]
        \cup [sender : QuerySenders, auth_token : QueryTokens,
               query_type : {"GET_NEXT_MATCH"},
               player_id : {PlayerIdOf(k) : k \in 1..MaxPlayers}]

\* handlers.py:141-208 as a step of the League Manager
LeagueQueryStep(query) ==
    /\ LET after == handle_league_query(query).state
       IN  /\ registered_players' = after.registered_players
           /\ registered_referees' = after.registered_referees
           /\ auth_tokens' = after.auth_tokens
           /\ current_round' = after.current_round
           /\ total_rounds' = after.total_rounds
           /\ matches_by_round' = after.matches_by_round
           /\ completed_matches' = after.completed_matches
           /\ league_started' = after.league_started
           /\ standings' = after.standings
    /\ UNCHANGED <<handlers, refereeFaults, rcEmitted, lcEmitted, annSent, issuedPlayers,
                   issuedReferees, ingested, reports>>
    /\ UNCHANGED peers
    /\ startReply' = NoReply
    /\ lastUpdate' = NoUpdate
    /\ updateBuilt' = NoMessage

\* the token table holds for the query's sender exactly what the query carries
TokenMatches(query) ==
    /\ SenderId(query.sender) \in DOMAIN auth_tokens
    /\ auth_tokens[SenderId(query.sender)] = query.auth_token

\* ------------------------------------------------------------ specification
\* the endpoint an agent registers: "http://localhost:{its port}/mcp"
\* (referee main.py:96, player main.py:101)
RefereeEndpoints == {EndpointOf(RefereePort(Len(registered_referees) + 1))}

PlayerEndpoints == {EndpointOf(PlayerPort(Len(registered_players) + 1))}

Next ==
    \/ \E e \in RefereeEndpoints : handle_referee_register(e)
    \/ \E e \in PlayerEndpoints : handle_player_register(e)
    \/ handle_start_league
    \/ \E h \in Suspended : \E d \in BOOLEAN : AnnounceRefereesStep(h, d)
    \/ \E h \in Suspended : AnnouncePlayersStep(h)
    \/ \E m \in MatchIdsUniverse : \E r \in Results(m) : handle_match_result(m, r)
    \/ \E h \in Suspended : StandingsUpdateStep(h)
    \/ \E h \in Suspended : RoundCompletedStep(h)
    \/ \E h \in Suspended : LeagueCompletedStep(h)

Spec == Init /\ [][Next]_vars

\* ------------------------------------------------ queries specification
\* The league with its requests served one at a time (a request arrives
\* when no handler is suspended), and LEAGUE_QUERYs arriving at any time.
AtRest == handlers = EmptyBag

NextQuery ==
    \/ \E e \in RefereeEndpoints : handle_referee_register(e)
    \/ \E e \in PlayerEndpoints : handle_player_register(e)
    \/ AtRest /\ handle_start_league
    \/ \E h \in Suspended : \E d \in BOOLEAN : AnnounceRefereesStep(h, d)
    \/ \E h \in Suspended : AnnouncePlayersStep(h)
    \/ \E m \in MatchIdsUniverse : \E r \in Results(m) : AtRest /\ handle_match_result(m, r)
    \/ \E h \in Suspended : StandingsUpdateStep(h)
    \/ \E h \in Suspended : RoundCompletedStep(h)
    \/ \E h \in Suspended : LeagueCompletedStep(h)
    \/ \E q \in Queries : LeagueQueryStep(q)

SpecQuery == Init /\ [][NextQuery]_vars

\* ------------------------------------------------- end-to-end specification
\* The league as it runs by itself: the agents register, START_LEAGUE
\* arrives, every post is delivered.  A MATCH_RESULT_REPORT is posted only by
\* the match task of a referee (referee main.py:147-173, called from
\* game_manager.py run_game), and a match task is created only at referee
\* handlers.py:99, past the read of line 70: where RefereeRaises holds the
\* announcement creates no task and no report is ever posted.
\* The players are started together and register in any order: a player's
\* id follows the order of arrival, its endpoint is its own.
LaunchedPlayerEndpoints ==
    {EndpointOf(PlayerPort(k)) : k \in 1..MaxPlayers}
        \ {registered_players[i].contact_endpoint : i \in 1..Len(registered_players)}

NextLive ==
    \/ \E e \in RefereeEndpoints : handle_referee_register(e)
    \/ \E e \in LaunchedPlayerEndpoints : handle_player_register(e)
    \/ handle_start_league
    \/ \E h \in Suspended : AnnounceRefereesStep(h, TRUE)
    \/ \E h \in Suspended : AnnouncePlayersStep(h)

\* the event loop resumes a coroutine whose awaited post has returned
LoopResumes ==
    \E h \in Suspended : AnnounceRefereesStep(h, TRUE) \/ AnnouncePlayersStep(h)

SpecLive == Init /\ [][NextLive]_vars /\ WF_vars(LoopResumes)

\* ------------------------------------------------- scheduler specification
\* start_league called with any list of distinct player ids
SchedulePlayerIds == {PlayerIdOf(k) : k \in 1..MaxSchedulePlayers}

PlayerIdLists ==
    UNION {{ids \in [1..n -> SchedulePlayerIds] :
               \A a, b \in 1..n : a # b => ids[a] # ids[b]} :
           n \in 0..MaxSchedulePlayers}

NextSchedule ==
    \/ \E e \in PlayerEndpoints : handle_player_register(e)
    \/ \E ids \in PlayerIdLists : start_league(ids)

SpecSchedule == Init /\ [][NextSchedule]_vars

\* ---------------------------------------------- announcement specification
\* The league after n players and R referees have registered (each from its
\* own port, in port order) and before START_LEAGUE; from there the league
\* is started, announced and reported on.
AnnounceRounds ==
    IF MaxAnnouncePlayers % 2 = 0 THEN MaxAnnouncePlayers - 1 ELSE MaxAnnouncePlayers

AnnounceAgentIds ==
    {PlayerIdOf(k) : k \in 1..MaxAnnouncePlayers}
        \cup {RefereeIdOf(k) : k \in 1..MaxAnnounceReferees}

RegisteredPlayersUpTo(n) ==
    [k \in 1..n |-> [agent_id |-> PlayerIdOf(k),
                     contact_endpoint |-> EndpointOf(PlayerPort(k))]]

RegisteredRefereesUpTo(n) ==
    [k \in 1..n |-> [agent_id |-> RefereeIdOf(k),
                     contact_endpoint |-> EndpointOf(RefereePort(k))]]

IssuedTo(registry) ==
    [k \in 1..Len(registry) |->
        [id |-> registry[k].agent_id, token |-> TokenOf(registry[k].agent_id),
         endpoint |-> registry[k].contact_endpoint]]

InitAnnounce ==
    \E n \in 2..MaxAnnouncePlayers : \E R \in 0..MaxAnnounceReferees :
       /\ registered_players = RegisteredPlayersUpTo(n)
       /\ registered_referees = RegisteredRefereesUpTo(R)
       /\ auth_tokens = [a \in Keys(RegisteredPlayersUpTo(n))
                                 \cup Keys(RegisteredRefereesUpTo(R)) |-> TokenOf(a)]
       /\ current_round = 0
       /\ total_rounds = 0
       /\ matches_by_round = <<>>
       /\ completed_matches = {}
       /\ league_started = FALSE
       /\ standings = <<>>
       /\ handlers = EmptyBag
       /\ refereeFaults = {}
       /\ rcEmitted = [r \in 1..AnnounceRounds |-> 0]
       /\ lcEmitted = 0
       /\ annSent = [t \in AnnounceAgentIds \X (1..AnnounceRounds) |-> 0]
       /\ issuedPlayers = IssuedTo(RegisteredPlayersUpTo(n))
       /\ issuedReferees = IssuedTo(RegisteredRefereesUpTo(R))
       /\ ingested = {}
       /\ reports = 0
       /\ game = NoGame
       /\ wire = NoExchange
       /\ refereeState = NoReferee
       /\ player = NoPlayer
       /\ retry = NoCall
       /\ startReply = NoReply
       /\ lastUpdate = NoUpdate
       /\ updateBuilt = NoMessage

NextAnnounce ==
    \/ handle_start_league
    \/ \E h \in Suspended : \E d \in BOOLEAN : AnnounceRefereesStep(h, d)
    \/ \E h \in Suspended : AnnouncePlayersStep(h)
    \/ \E m \in ScheduledMatchIds : \E r \in Results(m) : handle_match_result(m, r)
    \/ \E h \in Suspended : StandingsUpdateStep(h)
    \/ \E h \in Suspended : RoundCompletedStep(h)
    \/ \E h \in Suspended : LeagueCompletedStep(h)

SpecAnnounce == InitAnnounce /\ [][NextAnnounce]_vars

\* -------------------------------------------------- standings specification
\* The league after its players have registered; it is started, and
\* StandingsRepository.update_match_result is called with any two player
\* ids, any winner and any score dict over the two ids.
InitStandings ==
    \E n \in 2..MaxPlayers :
       /\ registered_players = RegisteredPlayersUpTo(n)
       /\ registered_referees = <<>>
       /\ auth_tokens = [a \in Keys(RegisteredPlayersUpTo(n)) |-> TokenOf(a)]
       /\ current_round = 0
       /\ total_rounds = 0
       /\ matches_by_round = <<>>
       /\ completed_matches = {}
       /\ league_started = FALSE
       /\ standings = <<>>
       /\ handlers = EmptyBag
       /\ refereeFaults = {}
       /\ rcEmitted = [r \in 1..RoundsUniverse |-> 0]
       /\ lcEmitted = 0
       /\ annSent = [t \in AgentIdsUniverse \X (1..RoundsUniverse) |-> 0]
       /\ issuedPlayers = IssuedTo(RegisteredPlayersUpTo(n))
       /\ issuedReferees = <<>>
       /\ ingested = {}
       /\ reports = 0
       /\ game = NoGame
       /\ wire = NoExchange
       /\ refereeState = NoReferee
       /\ player = NoPlayer
       /\ retry = NoCall
       /\ startReply = NoReply
       /\ lastUpdate = NoUpdate
       /\ updateBuilt = NoMessage

StandingsPlayerIds == {PlayerIdOf(k) : k \in 1..MaxPlayers}

ScorePoints == {0, 2}

\* the score dicts over (some of) the two players
Scores(player_A_id, player_B_id) ==
    UNION {[S -> ScorePoints] : S \in SUBSET {player_A_id, player_B_id}}

\* repositories.py:69-95  one call of update_match_result on the repository
UpdateMatchResultCall(player_A_id, player_B_id, winner, score) ==
    /\ \A k \in 1..Len(standings) : standings[k].played < MaxPlayed
    /\ standings' = update_match_result(standings, player_A_id, player_B_id,
                                        winner, score)
    /\ updateBuilt' = NoMessage
    /\ lastUpdate' = [called |-> TRUE, player_A_id |-> player_A_id,
                      player_B_id |-> player_B_id, winner |-> winner,
                      score |-> score]
    /\ UNCHANGED peers
    /\ startReply' = NoReply
    /\ UNCHANGED <<registered_players, registered_referees, auth_tokens,
                   current_round, total_rounds, matches_by_round,
                   completed_matches, league_started, handlers, refereeFaults,
                   rcEmitted, lcEmitted, annSent, issuedPlayers, issuedReferees,
                   ingested, reports>>

NextStandings ==
    \/ start_league(RegisteredPlayerIds)
    \/ \E a, b \in StandingsPlayerIds :
          \E winner \in StandingsPlayerIds \cup {None} :
             \E score \in Scores(a, b) : UpdateMatchResultCall(a, b, winner, score)

SpecStandings == InitStandings /\ [][NextStandings]_vars

\* ------------------------------------------------------------ game engine
\* game_logic.py:25-26
MIN_NUMBER == 1
MAX_NUMBER == 10

\* what a parity_choice may hold: the two parities, other spellings of
\* them, another word, the empty string
ParityChoices == {"even", "odd", "EVEN", "Odd", "maybe", ""}

\* str.lower on these strings
Lower(choice) ==
    CASE choice = "EVEN" -> "even"
      [] choice = "Odd" -> "odd"
      [] OTHER -> choice

\* game_logic.py:28-31  validate_choice
validate_choice(choice) == Lower(choice) \in {"even", "odd"}

\* a parity function that names the other parity
get_parity_Other(number) == IF number % 2 = 0 THEN "odd" ELSE "even"

\* game_logic.py:38-41  get_parity
get_parity(number) == IF number % 2 = 0 THEN "even" ELSE "odd"

\* no GameResult: play_game has not been called
NoGameResult == [raised |-> "not called"]

\* game_logic.py:43-84  play_game with the number that draw_number returns:
\* ValueError, or the GameResult (choices and score are dicts keyed by the
\* player ids; the second assignment to a key wins)
play_game(player_A_id, player_B_id, choice_A, choice_B, drawn_number) ==
    IF ~validate_choice(choice_A) \/ ~validate_choice(choice_B)
    THEN [raised |-> "ValueError"]
    ELSE LET number_parity == get_parity(drawn_number)
             winner == IF choice_A = number_parity THEN player_A_id
                       ELSE IF choice_B = number_parity THEN player_B_id
                       ELSE None
         IN  [raised |-> "",
              winner |-> winner,
              drawn_number |-> drawn_number,
              number_parity |-> number_parity,
              choices |-> [p \in {player_A_id, player_B_id} |->
                              IF p = player_B_id THEN choice_B ELSE choice_A],
              score |-> [p \in {player_A_id, player_B_id} |->
                            IF winner = p THEN 3 ELSE 0],
              reason |-> IF winner = None THEN "Both players chose incorrectly"
                         ELSE "chose the parity of the number"]

\* ------------------------------------------------------------- match task
\* What referee.send_to_player (referee main.py:122-143) gives back for a
\* GAME_INVITATION: None (the post failed, timed out, or was answered with a
\* JSON-RPC error or an empty result), or the reply with its accept field (a
\* reply without the field reads as accept = False, game_manager.py:118).
Acks == [returned : BOOLEAN, accept : BOOLEAN] \ {[returned |-> FALSE, accept |-> TRUE]}

\* ... and for a CHOOSE_PARITY_CALL: None, or the reply with its
\* parity_choice (None when the field is absent or null)
ParityResponses ==
    {[returned |-> FALSE, parity_choice |-> None]}
    \cup [returned : {TRUE}, parity_choice : ParityChoices \cup {None}]

\* bool(x) of a parity_choice: None and "" are falsy
Truthy(choice) == choice # None /\ choice # ""

\* a message the task has posted
Posted(message_type, to) == [message_type |-> message_type, to |-> to]

\* game_manager.py:84-111  run_game is created as a task and runs to its
\* first await: both invitations are built and the one to player A is posted
run_game(match_id, round_id, player_A_id, player_B_id) ==
    /\ game = NoGame
    /\ game' = [pc |-> "invitation_A", match_id |-> match_id, round_id |-> round_id,
                player_A_id |-> player_A_id, player_B_id |-> player_B_id,
                ack_A |-> [returned |-> FALSE, accept |-> FALSE],
                ack_B |-> [returned |-> FALSE, accept |-> FALSE],
                response_A |-> [returned |-> FALSE, parity_choice |-> None],
                response_B |-> [returned |-> FALSE, parity_choice |-> None],
                game_result |-> NoGameResult,
                sent |-> <<Posted("GAME_INVITATION", player_A_id)>>]

\* game_manager.py:111-112: ack_A is there; the invitation to player B is
\* posted whatever ack_A is
InvitationAReturns(ack) ==
    /\ game.pc = "invitation_A"
    /\ game' = [game EXCEPT !.pc = "invitation_B", !.ack_A = ack,
                            !.sent = Append(@, Posted("GAME_INVITATION", game.player_B_id))]

\* game_manager.py:112-153: ack_B is there; the task returns unless both
\* players joined and accepted, else it posts CHOOSE_PARITY_CALL to player A
InvitationBReturns(ack) ==
    /\ game.pc = "invitation_B"
    /\ IF ~game.ack_A.returned \/ ~ack.returned
       THEN game' = [game EXCEPT !.pc = "returned", !.ack_B = ack]
       ELSE IF ~game.ack_A.accept \/ ~ack.accept
       THEN game' = [game EXCEPT !.pc = "returned", !.ack_B = ack]
       ELSE game' = [game EXCEPT !.pc = "choice_A", !.ack_B = ack,
                        !.sent = Append(@, Posted("CHOOSE_PARITY_CALL", game.player_A_id))]

\* game_manager.py:153-154: response_A is there; the call to player B is
\* posted whatever response_A is
ChoiceAReturns(response) ==
    /\ game.pc = "choice_A"
    /\ game' = [game EXCEPT !.pc = "choice_B", !.response_A = response,
                            !.sent = Append(@, Posted("CHOOSE_PARITY_CALL", game.player_B_id))]

\* game_manager.py:154-192: response_B is there; the task returns when a
\* response or a choice is missing, play_game is called (an exception it
\* raises is logged at game_manager.py:211-212 and ends the task), GAME_OVER
\* is built and posted to player A
ChoiceBReturns(response, drawn_number) ==
    /\ game.pc = "choice_B"
    /\ LET choice_A == game.response_A.parity_choice
           choice_B == response.parity_choice
           game_result == play_game(game.player_A_id, game.player_B_id,
                                    choice_A, choice_B, drawn_number)
       IN  IF ~game.response_A.returned \/ ~response.returned
           THEN game' = [game EXCEPT !.pc = "returned", !.response_B = response]
           ELSE IF ~Truthy(choice_A) \/ ~Truthy(choice_B)
           THEN game' = [game EXCEPT !.pc = "returned", !.response_B = response]
           ELSE IF game_result.raised # ""
           THEN game' = [game EXCEPT !.pc = "returned", !.response_B = response,
                                     !.game_result = game_result]
           ELSE game' = [game EXCEPT !.pc = "game_over_A", !.response_B = response,
                            !.game_result = game_result,
                            !.sent = Append(@, Posted("GAME_OVER", game.player_A_id))]

\* game_manager.py:192-193: the post of GAME_OVER to player A has returned
\* (its outcome is not looked at); GAME_OVER is posted to player B
GameOverAReturns ==
    /\ game.pc = "game_over_A"
    /\ game' = [game EXCEPT !.pc = "game_over_B",
                            !.sent = Append(@, Posted("GAME_OVER", game.player_B_id))]

\* game_manager.py:193-207, referee main.py:145-169: the post of GAME_OVER
\* to player B has returned; report_match_result posts MATCH_RESULT_REPORT
\* to the League Manager
GameOverBReturns ==
    /\ game.pc = "game_over_B"
    /\ game' = [game EXCEPT !.pc = "report",
                            !.sent = Append(@, Posted("MATCH_RESULT_REPORT", "league_manager"))]

\* a report that names player A the winner whatever the engine returned
ReportedResult_PlayerA(g) ==
    [winner |-> g.player_A_id, points |-> <<3, 0>>,
     choices |-> <<g.player_A_id, g.player_B_id>>]

\* referee main.py:149-157: result as the report carries it (winner, score
\* and details.choices of the GameResult), in the shape the League
\* Manager's handler reads it
ReportedResult(g) ==
    [winner |-> g.game_result.winner,
     points |-> <<g.game_result.score[g.player_A_id], g.game_result.score[g.player_B_id]>>,
     choices |-> <<g.player_A_id, g.player_B_id>>]

\* a step of the match task, the League Manager left alone
TaskStep(step) ==
    /\ step
    /\ UNCHANGED <<lmState, handlers, observations, wire, refereeState,
                   player, retry>>

\* referee main.py:159-169: the post reaches the League Manager, whose
\* handler starts (handlers.py:94-128); the task ends when the post returns
ReportDelivered ==
    /\ game.pc = "report"
    /\ game' = [game EXCEPT !.pc = "returned"]
    /\ ReportReceived(game.match_id, ReportedResult(game))
    /\ UNCHANGED <<wire, refereeState, player, retry>>

\* referee main.py:168-169: the post fails; the error is logged
ReportFails ==
    /\ game.pc = "report"
    /\ game' = [game EXCEPT !.pc = "returned"]

\* ----------------------------------------------- match task specification
\* One match task of a referee, P01 against P02 in either role, and the
\* League Manager it reports to, where players may register meanwhile.
GamePlayers == {PlayerIdOf(k) : k \in 1..2}

NextGame ==
    \/ \E e \in PlayerEndpoints : handle_player_register(e)
    \/ \E a, b \in GamePlayers : a # b /\ TaskStep(run_game("R1M1", 1, a, b))
    \/ \E ack \in Acks : TaskStep(InvitationAReturns(ack))
    \/ \E ack \in Acks : TaskStep(InvitationBReturns(ack))
    \/ \E response \in ParityResponses : TaskStep(ChoiceAReturns(response))
    \/ \E response \in ParityResponses :
          \E drawn_number \in MIN_NUMBER..MAX_NUMBER :
             TaskStep(ChoiceBReturns(response, drawn_number))
    \/ TaskStep(GameOverAReturns)
    \/ TaskStep(GameOverBReturns)
    \/ ReportDelivered
    \/ TaskStep(ReportFails)
    \/ \E h \in Suspended : StandingsUpdateStep(h)

SpecGame == Init /\ [][NextGame]_vars

\* ---------------------------------------------------------------- message
\* A string that validate_message looks into is the sequence of its parts:
\* a date and time, the suffix Z, a UTC offset.  A timestamp is such a
\* string or not a string at all (null).
MaxTimestampParts == 2

TimestampParts == {"2025-01-15T10:00:00", "Z", "+00:00", "+02:00"}

Strings(n) == UNION {[1..k -> TimestampParts] : k \in 0..n}

Timestamps ==
    {[is_str |-> FALSE, text |-> <<>>]}
    \cup [is_str : {TRUE}, text : Strings(MaxTimestampParts)]

\* str.endswith
EndsWith(text, part) == Len(text) > 0 /\ text[Len(text)] = part

\* part in text
Contains(text, part) == \E i \in 1..Len(text) : text[i] = part

\* str.replace
Replace(text, old, new) == [i \in 1..Len(text) |-> IF text[i] = old THEN new ELSE text[i]]

\* message.py:31  datetime.now(timezone.utc).isoformat().replace("+00:00", "Z")
Now ==
    [is_str |-> TRUE,
     text |-> Replace(<<"2025-01-15T10:00:00", "+00:00">>, "+00:00", "Z")]

\* message.py:32  f"conv-{uuid.uuid4().hex[:8]}": an id no request carries
FreshConversationId == "conv-0a1b2c3d"

\* the conversation ids a request may carry: a token, the empty string, null
ConversationIds == {"conv-123", "", None}

\* bool(x) of a string or None
Falsy(x) == x = "" \/ x = None

\* message.py:17, 19-25
PROTOCOL_VERSION == "league.v2"
REQUIRED_FIELDS == {"protocol", "message_type", "sender", "timestamp", "conversation_id"}

\* the handler maps: league manager handlers.py:17-23, referee
\* handlers.py:22-24, player handlers.py:17-25
HandledTypes(receiver) ==
    CASE receiver = "league_manager" ->
            {"REFEREE_REGISTER_REQUEST", "LEAGUE_REGISTER_REQUEST", "MATCH_RESULT_REPORT",
             "LEAGUE_QUERY", "START_LEAGUE"}
      [] receiver = "referee" -> {"ROUND_ANNOUNCEMENT", "LEAGUE_COMPLETED"}
      [] receiver = "player" ->
            {"ROUND_ANNOUNCEMENT", "GAME_INVITATION", "CHOOSE_PARITY_CALL", "GAME_OVER",
             "LEAGUE_STANDINGS_UPDATE", "ROUND_COMPLETED", "LEAGUE_COMPLETED"}

Receivers == {"league_manager", "referee", "player"}

\* the message types a request may carry: the handled ones, one that no
\* agent handles, the empty string
MessageTypes == UNION {HandledTypes(r) : r \in Receivers} \cup {"TEST", ""}

Senders == {"player:P01", ""}

Protocols == {PROTOCOL_VERSION, "league.v1"}

\* the value a field that the dict lacks has in the model
Absent(field) == IF field = "timestamp" THEN [is_str |-> FALSE, text |-> <<>>] ELSE None

\* What may arrive as params.message: a value that is not a dict, or a dict
\* with some of the envelope fields.
Envelopes ==
    {[dict |-> FALSE, present |-> {}, protocol |-> None, message_type |-> None,
      sender |-> None, timestamp |-> Absent("timestamp"), conversation_id |-> None]}
    \cup
    {d \in [dict : {TRUE}, present : SUBSET REQUIRED_FIELDS, protocol : Protocols \cup {None},
            message_type : MessageTypes \cup {None}, sender : Senders \cup {None},
            timestamp : Timestamps, conversation_id : ConversationIds] :
        /\ "protocol" \notin d.present <=> d.protocol = None
        /\ "message_type" \notin d.present <=> d.message_type = None
        /\ "sender" \notin d.present <=> d.sender = None
        /\ "timestamp" \notin d.present => d.timestamp = Absent("timestamp")
        /\ "conversation_id" \notin d.present => d.conversation_id = None}

\* a validation that lets every envelope through
validate_message_Lenient(data) == ""

\* message.py:88-103  validate_message: the exception it raises, "" when it
\* returns (None.endswith raises AttributeError)
validate_message(data) ==
    IF ~data.dict THEN "MessageError"
    ELSE IF REQUIRED_FIELDS \ data.present # {} THEN "MessageError"
    ELSE IF data.protocol # PROTOCOL_VERSION THEN "MessageError"
    ELSE IF ~data.timestamp.is_str THEN "AttributeError"
    ELSE IF ~EndsWith(data.timestamp.text, "Z") /\ ~Contains(data.timestamp.text, "+00:00")
    THEN "MessageError"
    ELSE ""

\* no Message
NoMsg == [message_type |-> "", sender |-> "", protocol |-> "",
          timestamp |-> Absent("timestamp"), conversation_id |-> ""]

\* message.py:27-43  Message.__init__ (kwargs.get gives None for a keyword
\* that was not passed; "x or y" is y for a falsy x)
Message(message_type, sender, timestamp, conversation_id) ==
    [message_type |-> message_type,
     sender |-> sender,
     protocol |-> PROTOCOL_VERSION,
     timestamp |-> IF ~timestamp.is_str \/ timestamp.text = <<>> THEN Now ELSE timestamp,
     conversation_id |-> IF Falsy(conversation_id) THEN FreshConversationId
                         ELSE conversation_id]

\* message.py:83-85  create_message
create_message(message_type, sender, timestamp, conversation_id) ==
    Message(message_type, sender, timestamp, conversation_id)

\* message.py:45-66  to_dict: the five envelope fields are always there
to_dict(message) ==
    [dict |-> TRUE, present |-> REQUIRED_FIELDS, protocol |-> message.protocol,
     message_type |-> message.message_type, sender |-> message.sender,
     timestamp |-> message.timestamp, conversation_id |-> message.conversation_id]

\* message.py:68-77  from_dict raises MessageError for a falsy message_type
\* or sender
FromDictRaises(data) == Falsy(data.message_type) \/ Falsy(data.sender)

from_dict(data) == Message(data.message_type, data.sender, data.timestamp, data.conversation_id)

\* The replies a handler of the receiver may return for a message type
\* (league manager handlers.py:50, 85, 133, 160, 201, 222, 237, 252; referee
\* handlers.py:27, 98; player handlers.py:48, 71, 105, 116, 126, 136, 146)
ReplyTypes(receiver, message_type) ==
    CASE receiver = "league_manager" /\ message_type = "REFEREE_REGISTER_REQUEST" ->
            {"REFEREE_REGISTER_RESPONSE"}
      [] receiver = "league_manager" /\ message_type = "LEAGUE_REGISTER_REQUEST" ->
            {"LEAGUE_REGISTER_RESPONSE"}
      [] receiver = "league_manager" /\ message_type = "MATCH_RESULT_REPORT" ->
            {"MATCH_RESULT_ACK"}
      [] receiver = "league_manager" /\ message_type = "LEAGUE_QUERY" ->
            {"LEAGUE_ERROR", "LEAGUE_QUERY_RESPONSE"}
      [] receiver = "league_manager" /\ message_type = "START_LEAGUE" ->
            {"LEAGUE_STATUS", "LEAGUE_ERROR"}
      [] receiver = "player" /\ message_type = "GAME_INVITATION" -> {"GAME_JOIN_ACK"}
      [] receiver = "player" /\ message_type = "CHOOSE_PARITY_CALL" ->
            {"CHOOSE_PARITY_RESPONSE"}
      [] OTHER -> {"ACK"}

\* the sender a receiver signs its replies with
ReplySender(receiver) ==
    CASE receiver = "league_manager" -> "league_manager"
      [] receiver = "referee" -> "referee:REF01"
      [] receiver = "player" -> "player:P01"

\* the create_message call that ends every handler:
\* conversation_id=message.conversation_id, no timestamp
Reply(receiver, reply_type, message) ==
    create_message(reply_type, ReplySender(receiver), Absent("timestamp"),
                   message.conversation_id)

\* ------------------------------------------------- envelope specification
\* One envelope on its way through handle_mcp_request (league manager
\* main.py:76-98, referee main.py:60-83, player main.py:64-87): it arrives
\* from outside, or an agent builds it with create_message and posts
\* message.to_dict(); it is validated, turned into a Message and handled.
Exchange(stage, receiver, built, data, error, message, reply) ==
    [stage |-> stage, receiver |-> receiver, built |-> built, data |-> data,
     error |-> error, message |-> message, reply |-> reply]

NoData == CHOOSE d \in Envelopes : ~d.dict

InitWire ==
    /\ registered_players = <<>>
    /\ registered_referees = <<>>
    /\ auth_tokens = EmptyDict
    /\ current_round = 0
    /\ total_rounds = 0
    /\ matches_by_round = <<>>
    /\ completed_matches = {}
    /\ league_started = FALSE
    /\ standings = <<>>
    /\ handlers = EmptyBag
    /\ refereeFaults = {}
    /\ rcEmitted = [r \in 1..RoundsUniverse |-> 0]
    /\ lcEmitted = 0
    /\ annSent = [t \in AgentIdsUniverse \X (1..RoundsUniverse) |-> 0]
    /\ issuedPlayers = <<>>
    /\ issuedReferees = <<>>
    /\ ingested = {}
    /\ reports = 0
    /\ startReply = NoReply
    /\ lastUpdate = NoUpdate
    /\ updateBuilt = NoMessage
    /\ game = NoGame
    /\ refereeState = NoReferee
    /\ player = NoPlayer
    /\ retry = NoCall
    /\ \/ \E receiver \in Receivers : \E data \in Envelopes :
             wire = Exchange("received", receiver, FALSE, data, "", NoMsg, NoMsg)
       \/ \E receiver \in Receivers : \E message_type \in MessageTypes :
             \E sender \in Senders : \E timestamp \in Timestamps :
                \E conversation_id \in ConversationIds :
                   wire = Exchange("created", receiver, TRUE, NoData, "",
                                   create_message(message_type, sender, timestamp,
                                                  conversation_id),
                                   NoMsg)

\* referee main.py:125-134 and its like: message.to_dict() is posted
PostStep ==
    /\ wire.stage = "created"
    /\ wire' = [wire EXCEPT !.stage = "received", !.data = to_dict(wire.message),
                            !.message = NoMsg]

\* main.py:82  validate_message(message_data); an exception becomes the
\* JSON-RPC error of main.py:92-98
ValidateStep ==
    /\ wire.stage = "received"
    /\ LET error == validate_message(wire.data)
       IN  wire' = [wire EXCEPT !.stage = IF error = "" THEN "validated" ELSE "rejected",
                                !.error = error]

\* main.py:83  message = Message.from_dict(message_data)
FromDictStep ==
    /\ wire.stage = "validated"
    /\ IF FromDictRaises(wire.data)
       THEN wire' = [wire EXCEPT !.stage = "failed", !.error = "MessageError"]
       ELSE wire' = [wire EXCEPT !.stage = "parsed", !.message = from_dict(wire.data)]

\* main.py:85  response = await self.handler.handle(message): the handler
\* map has no entry (ValueError), or the handler returns one of its replies
HandleStep(reply_type) ==
    /\ wire.stage = "parsed"
    /\ reply_type \in ReplyTypes(wire.receiver, wire.message.message_type)
    /\ IF wire.message.message_type \notin HandledTypes(wire.receiver)
       THEN wire' = [wire EXCEPT !.stage = "failed", !.error = "ValueError"]
       ELSE wire' = [wire EXCEPT !.stage = "replied",
                        !.reply = Reply(wire.receiver, reply_type, wire.message)]

AllReplyTypes == UNION {ReplyTypes(r, t) : r \in Receivers, t \in MessageTypes}

WireStep(step) ==
    /\ step
    /\ UNCHANGED <<lmState, handlers, observations, game, refereeState,
                   player, retry>>

NextWire ==
    \/ WireStep(PostStep)
    \/ WireStep(ValidateStep)
    \/ WireStep(FromDictStep)
    \/ \E reply_type \in AllReplyTypes : WireStep(HandleStep(reply_type))

SpecWire == InitWire /\ [][NextWire]_vars

\* ------------------------------------------------ League Manager dispatch
\* The envelopes that reach the League Manager in the dispatch
\* specification: the envelope create_message builds for a message type,
\* as it is for every type, with one defect for two of them
Defects ==
    {"none", "not an object", "other protocol", "no sender", "null timestamp",
     "timestamp without zone", "timestamp with offset"}

DispatchEnvelope(message_type, defect) ==
    LET data == to_dict(create_message(message_type, "player:P01",
                                       Absent("timestamp"), "conv-123"))
    IN  CASE defect = "none" -> data
          [] defect = "not an object" -> NoData
          [] defect = "other protocol" -> [data EXCEPT !.protocol = "league.v1"]
          [] defect = "no sender" ->
                [data EXCEPT !.present = @ \ {"sender"}, !.sender = None]
          [] defect = "null timestamp" ->
                [data EXCEPT !.timestamp = [is_str |-> FALSE, text |-> <<>>]]
          [] defect = "timestamp without zone" ->
                [data EXCEPT !.timestamp.text = <<"2025-01-15T10:00:00">>]
          [] defect = "timestamp with offset" ->
                [data EXCEPT !.timestamp.text = <<"2025-01-15T10:00:00", "+00:00">>]

DispatchEnvelopes ==
    {DispatchEnvelope(message_type, "none") :
        message_type \in HandledTypes("league_manager") \cup {"GAME_OVER"}}
    \cup {DispatchEnvelope(message_type, defect) :
             message_type \in {"LEAGUE_REGISTER_REQUEST", "START_LEAGUE"},
             defect \in Defects}

\* the LEAGUE_QUERYs of the dispatch specification
DispatchQueries ==
    {q \in Queries : q.sender = <<PlayerIdOf(1)>> /\ q.query_type = "GET_STANDINGS"}

\* main.py:92-98  the exception is answered with the JSON-RPC error -32000;
\* nothing of the League Manager was touched
Rejected(error) ==
    /\ wire' = Exchange("rejected", "league_manager", FALSE, NoData, error, NoMsg, NoMsg)
    /\ UNCHANGED <<lmState, handlers, observations, game, refereeState, player, retry>>

\* handlers.py:15-29  handle: the handler of the message's type runs to its
\* first await on the fields of the message body
Dispatch(message_type) ==
    CASE message_type = "REFEREE_REGISTER_REQUEST" ->
            \E e \in RefereeEndpoints : handle_referee_register(e)
      [] message_type = "LEAGUE_REGISTER_REQUEST" ->
            \E e \in PlayerEndpoints : handle_player_register(e)
      [] message_type = "MATCH_RESULT_REPORT" ->
            \E m \in MatchIdsUniverse : \E r \in Results(m) : handle_match_result(m, r)
      [] message_type = "LEAGUE_QUERY" ->
            \E q \in DispatchQueries : LeagueQueryStep(q)
      [] message_type = "START_LEAGUE" -> handle_start_league

\* main.py:75-98  handle_mcp_request for params.message = data, up to the
\* first await of the handler
LMReceive(data) ==
    LET error == validate_message(data)
    IN  IF error # "" THEN Rejected(error)
        ELSE IF FromDictRaises(data) THEN Rejected("MessageError")
        ELSE IF from_dict(data).message_type \notin HandledTypes("league_manager")
        THEN Rejected("ValueError")
        ELSE Dispatch(from_dict(data).message_type)

NextDispatch ==
    \/ \E data \in DispatchEnvelopes : AtRest /\ LMReceive(data)
    \/ \E h \in Suspended : \E d \in BOOLEAN : AnnounceRefereesStep(h, d)
    \/ \E h \in Suspended : AnnouncePlayersStep(h)
    \/ \E h \in Suspended : StandingsUpdateStep(h)
    \/ \E h \in Suspended : RoundCompletedStep(h)
    \/ \E h \in Suspended : LeagueCompletedStep(h)

\* The League Manager behind its endpoint, its requests served one at a
\* time (a request arrives when no handler is suspended).
SpecDispatch == Init /\ [][NextDispatch]_vars

\* -------------------------------------------------- referee announcements
MaxAssigned == 2
MaxAnnouncements == 2
MaxCap == 2

\* the k-th match of the announcement of round round_id as a referee on
\* port 8001 sees it: assigned to it or to another referee, with or without
\* the endpoint of player A
AnnouncedMatch(round_id, k, mine, with_endpoints) ==
    [NewMatch(<<PlayerIdOf(1), PlayerIdOf(k + 1)>>, round_id, k) EXCEPT
        !.referee_endpoint = EndpointOf(RefereePort(IF mine THEN 1 ELSE 2)),
        !.player_A_endpoint = IF with_endpoints THEN EndpointOf(PlayerPort(1))
                              ELSE NoEndpoint,
        !.player_B_endpoint = EndpointOf(PlayerPort(k + 1))]

\* message.matches of a ROUND_ANNOUNCEMENT for round round_id
AnnouncedMatchLists(round_id) ==
    UNION {{ms \in [1..n -> UNION {{AnnouncedMatch(round_id, k, mine, ep) :
                                       mine \in BOOLEAN, ep \in BOOLEAN} : k \in 1..n}] :
               \A k \in 1..n : ms[k].match_id = MatchIdOf(round_id, k)} :
           n \in 1..MaxAssigned}

RefereeMatchIds ==
    {MatchIdOf(r, k) : r \in 1..MaxAnnouncements, k \in 1..MaxAssigned}

\* the loop variables of a handler call before the first assigned match
Unbound == [match_id |-> None]

\* referee handlers.py:54-96  the loop of handle_round_announcement from
\* match i on.  loop holds match_id, the player ids and the player endpoints
\* as lines 57-63 last assigned them: they are locals of the handler call,
\* and run_and_cleanup reads them when it runs, not when it is defined.
\* Line 70 raises AttributeError on a Referee without active_games and
\* max_concurrent_matches.  call is the number of this handler call.
RECURSIVE AnnounceFrom(_, _, _, _)
AnnounceFrom(ref, matches, i, call) ==
    IF i > Len(matches) THEN ref
    ELSE LET match == matches[i]
         IN  IF ~PortInEndpoint(ref.port, match.referee_endpoint)
             THEN AnnounceFrom(ref, matches, i + 1, call)
             ELSE LET bound == [ref EXCEPT !.closures[call] = match]
                  IN  IF match.player_A_endpoint = NoEndpoint
                         \/ match.player_B_endpoint = NoEndpoint
                      THEN AnnounceFrom(bound, matches, i + 1, call)
                      ELSE IF ~ref.attached
                      THEN [bound EXCEPT !.raised = "AttributeError"]
                      ELSE IF Cardinality(ref.active_games) >= ref.max_concurrent_matches
                      THEN AnnounceFrom(bound, matches, i + 1, call)
                      ELSE AnnounceFrom(
                              [bound EXCEPT
                                  !.active_games = @ \cup {match.match_id},
                                  !.created = @ + 1,
                                  !.tasks = @ \cup {[id |-> ref.created + 1, call |-> call,
                                                     for |-> match.match_id,
                                                     pc |-> "created", runs |-> None]}],
                              matches, i + 1, call)

\* referee main.py:25-58  a Referee as __init__ leaves it (attached = FALSE:
\* it has no active_games and no max_concurrent_matches), or one whose
\* embedding code has set the two attributes that handlers.py:70-78 read
\* (attached = TRUE: active_games = set(), max_concurrent_matches = cap)
NewReferee(attached, cap) ==
    [constructed |-> TRUE, port |-> RefereePort(1), attached |-> attached,
     max_concurrent_matches |-> cap, active_games |-> {}, closures |-> <<>>,
     tasks |-> {}, created |-> 0, ran |-> [m \in RefereeMatchIds |-> 0],
     raised |-> "", outcome |-> ""]

InitReferee ==
    /\ registered_players = <<>>
    /\ registered_referees = <<>>
    /\ auth_tokens = EmptyDict
    /\ current_round = 0
    /\ total_rounds = 0
    /\ matches_by_round = <<>>
    /\ completed_matches = {}
    /\ league_started = FALSE
    /\ standings = <<>>
    /\ handlers = EmptyBag
    /\ refereeFaults = {}
    /\ rcEmitted = [r \in 1..RoundsUniverse |-> 0]
    /\ lcEmitted = 0
    /\ annSent = [t \in AgentIdsUniverse \X (1..RoundsUniverse) |-> 0]
    /\ issuedPlayers = <<>>
    /\ issuedReferees = <<>>
    /\ ingested = {}
    /\ reports = 0
    /\ startReply = NoReply
    /\ lastUpdate = NoUpdate
    /\ updateBuilt = NoMessage
    /\ game = NoGame
    /\ wire = NoExchange
    /\ player = NoPlayer
    /\ retry = NoCall
    /\ \E attached \in BOOLEAN : \E cap \in 1..MaxCap :
          refereeState = NewReferee(attached, cap)

\* referee handlers.py:35-101  handle_round_announcement (no await: one
\* block): the ACK, or the exception that main.py:77-83 answers with
RefereeAnnounced(matches) ==
    /\ Len(refereeState.closures) < MaxAnnouncements
    /\ LET call == Len(refereeState.closures) + 1
       IN  refereeState' =
              AnnounceFrom([refereeState EXCEPT !.closures = Append(@, Unbound),
                                                !.raised = "", !.outcome = ""],
                           matches, 1, call)

\* referee handlers.py:81-91  a task created by the handler begins to run:
\* run_game is called with the values the loop variables hold now
TaskStarts(t) ==
    /\ t \in refereeState.tasks
    /\ t.pc = "created"
    /\ LET match_id == refereeState.closures[t.call].match_id
       IN  refereeState' =
              [refereeState EXCEPT
                  !.tasks = (@ \ {t}) \cup {[t EXCEPT !.pc = "running", !.runs = match_id]},
                  !.ran[match_id] = @ + 1,
                  !.outcome = ""]

\* referee handlers.py:92-94  run_game has returned (after its report, after
\* an abort, or after the exception it logs at game_manager.py:211-212);
\* finally discards the match_id the loop variable holds
TaskEnds(t, outcome) ==
    /\ t \in refereeState.tasks
    /\ t.pc = "running"
    /\ refereeState' =
          [refereeState EXCEPT
              !.tasks = @ \ {t},
              !.active_games = @ \ {refereeState.closures[t.call].match_id},
              !.outcome = outcome]

RefereeStep(step) ==
    /\ step
    /\ UNCHANGED <<lmState, handlers, observations, game, wire, player, retry>>

NextReferee ==
    \/ \E matches \in AnnouncedMatchLists(Len(refereeState.closures) + 1) :
          RefereeStep(RefereeAnnounced(matches))
    \/ \E t \in refereeState.tasks : RefereeStep(TaskStarts(t))
    \/ \E t \in refereeState.tasks :
          \E outcome \in {"reported", "aborted", "exception"} :
             RefereeStep(TaskEnds(t, outcome))

SpecReferee == InitReferee /\ [][NextReferee]_vars

\* ------------------------------------------------------------ player agent
MaxPlayerMatches == 2

\* player main.py:34, 158-169  self.player_id is the --player-id the process
\* was launched with (Pk for the player on port 810k) and is assigned
\* nowhere else: register_with_league_manager (main.py:116-120) keeps only
\* auth_token of the LEAGUE_REGISTER_RESPONSE
OwnPlayerId(k) == PlayerIdOf(k)

\* the matches player P01 is invited to, against P02, P03, ...
PlayerMatchIds == {MatchIdOf(1, k) : k \in 1..MaxPlayerMatches}
OpponentIn(match_id) ==
    PlayerIdOf(1 + CHOOSE k \in 1..MaxPlayerMatches : MatchIdOf(1, k) = match_id)

\* dict.get(key) of a choices dict
ChoicesGet(choices, key) == IF key \in DOMAIN choices THEN choices[key] ELSE None

\* player main.py:55  self.current_game = None
NoCurrentGame == [match_id |-> None, opponent_id |-> None]

\* player main.py:30-60  Player.__init__, with what the player has received
\* so far: invited[m] is the opponent_id of the GAME_INVITATION for m,
\* over[m] the game_result of its GAME_OVER
NewPlayer(player_id) ==
    [constructed |-> TRUE, player_id |-> player_id, current_game |-> NoCurrentGame,
     history |-> <<>>,
     invited |-> [m \in PlayerMatchIds |-> None],
     over |-> [m \in PlayerMatchIds |-> NoGameResult]]

\* the game_result field of the GAME_OVER a referee builds from what
\* play_game returned for P01 against opponent_id (game_manager.py:176-189)
GameOverResults(player_id, opponent_id) ==
    {r \in {play_game(player_id, opponent_id, choice_A, choice_B, drawn_number) :
               choice_A \in {"even", "odd"}, choice_B \in {"even", "odd"},
               drawn_number \in {MIN_NUMBER, MIN_NUMBER + 1}} : r.raised = ""}

\* player handlers.py:33-56  handle_game_invitation
handle_game_invitation(match_id, opponent_id) ==
    /\ player.constructed
    /\ player.invited[match_id] = None
    /\ player' = [player EXCEPT
                     !.current_game = [match_id |-> match_id, opponent_id |-> opponent_id],
                     !.invited[match_id] = opponent_id]

\* player handlers.py:80-109  handle_game_over
handle_game_over(match_id, game_result) ==
    /\ player.constructed
    /\ player.invited[match_id] # None
    /\ player.over[match_id] = NoGameResult
    /\ LET winner == game_result.winner
           choices == game_result.choices
           current == player.current_game
       IN  player' = [player EXCEPT
              !.history = Append(@,
                 [match_id |-> match_id,
                  opponent |-> IF current # NoCurrentGame THEN current.opponent_id ELSE None,
                  my_choice |-> ChoicesGet(choices, player.player_id),
                  opponent_choice |-> IF current # NoCurrentGame
                                      THEN ChoicesGet(choices, current.opponent_id)
                                      ELSE None,
                  drawn_number |-> game_result.drawn_number,
                  winner |-> winner,
                  won |-> (winner = player.player_id)]),
              !.current_game = NoCurrentGame,
              !.over[match_id] = game_result]

InitPlayer ==
    /\ registered_players = <<>>
    /\ registered_referees = <<>>
    /\ auth_tokens = EmptyDict
    /\ current_round = 0
    /\ total_rounds = 0
    /\ matches_by_round = <<>>
    /\ completed_matches = {}
    /\ league_started = FALSE
    /\ standings = <<>>
    /\ handlers = EmptyBag
    /\ refereeFaults = {}
    /\ rcEmitted = [r \in 1..RoundsUniverse |-> 0]
    /\ lcEmitted = 0
    /\ annSent = [t \in AgentIdsUniverse \X (1..RoundsUniverse) |-> 0]
    /\ issuedPlayers = <<>>
    /\ issuedReferees = <<>>
    /\ ingested = {}
    /\ reports = 0
    /\ startReply = NoReply
    /\ lastUpdate = NoUpdate
    /\ updateBuilt = NoMessage
    /\ game = NoGame
    /\ wire = NoExchange
    /\ refereeState = NoReferee
    /\ retry = NoCall
    /\ player = NewPlayer(PlayerIdOf(1))

PlayerStep(step) ==
    /\ step
    /\ UNCHANGED <<lmState, handlers, observations, game, wire, refereeState, retry>>

\* the referees' tasks post to the player in any order across matches;
\* within a match GAME_OVER follows the invitation
NextPlayer ==
    \/ \E m \in PlayerMatchIds : PlayerStep(handle_game_invitation(m, OpponentIn(m)))
    \/ \E m \in PlayerMatchIds :
          \E game_result \in GameOverResults(PlayerIdOf(1), OpponentIn(m)) :
             PlayerStep(handle_game_over(m, game_result))

SpecPlayer == InitPlayer /\ [][NextPlayer]_vars

\* -------------------------------------------------------------- retries
MaxRetries == 3

\* retry.py:14-17  the defaults of retry_with_backoff, in seconds
DEFAULT_MAX_RETRIES == 3
INITIAL_DELAY == 1
MAX_DELAY == 10
BACKOFF_FACTOR == 2

\* what one call of the wrapped function does: it returns a response, or
\* raises one of the exceptions of retry.py:18, or raises another exception
FuncOutcomes == {"response", "RequestError", "HTTPStatusError", "ValueError"}

\* retry.py:18  exceptions = (httpx.RequestError, httpx.HTTPStatusError)
Transient(outcome) == outcome \in {"RequestError", "HTTPStatusError"}

\* a backoff without the cap
NextDelay_Uncapped(delay, backoff_factor, max_delay) == delay * backoff_factor

\* retry.py:47  delay = min(delay * backoff_factor, max_delay)
NextDelay(delay, backoff_factor, max_delay) ==
    IF delay * backoff_factor < max_delay THEN delay * backoff_factor ELSE max_delay

\* retry.py:56-89  what send_message_with_retry makes of the end of
\* retry_with_backoff: the response, or None for any exception
\* retry.py:36-53  and what retry_with_backoff itself ends with
Ending(call, outcome) ==
    IF outcome = "response"
    THEN [call EXCEPT !.pc = "returned", !.result = "response"]
    ELSE IF call.via_send
    THEN [call EXCEPT !.pc = "returned", !.result = None]
    ELSE [call EXCEPT !.pc = "raised", !.result = outcome]

\* retry.py:36-42 (and 76-86 when called through send_message_with_retry,
\* which passes initial_delay=1.0, max_delay=10.0, backoff_factor=2.0):
\* the loop is entered and func() is awaited for attempt 0
retry_with_backoff(via_send, max_retries, initial_delay) ==
    /\ retry = NoCall
    /\ via_send => initial_delay = INITIAL_DELAY
    /\ retry' = [pc |-> "calling", via_send |-> via_send, max_retries |-> max_retries,
                 initial_delay |-> initial_delay, delay |-> initial_delay,
                 attempt |-> 0, outcomes |-> <<>>, slept |-> <<>>, result |-> None]

\* retry.py:41-49  func() has returned or raised
FuncEnds(outcome) ==
    /\ retry.pc = "calling"
    /\ LET call == [retry EXCEPT !.outcomes = Append(@, outcome)]
       IN  IF Transient(outcome) /\ retry.attempt < retry.max_retries
           THEN retry' = [call EXCEPT !.pc = "sleeping", !.slept = Append(@, retry.delay)]
           ELSE retry' = Ending(call, outcome)

\* retry.py:46-47, 40-42  asyncio.sleep(delay) is over: the delay is
\* raised for the next time and func() is awaited for the next attempt
SleepEnds ==
    /\ retry.pc = "sleeping"
    /\ retry' = [retry EXCEPT !.pc = "calling", !.attempt = @ + 1,
                    !.delay = NextDelay(@, BACKOFF_FACTOR, MAX_DELAY)]

InitRetry ==
    /\ registered_players = <<>>
    /\ registered_referees = <<>>
    /\ auth_tokens = EmptyDict
    /\ current_round = 0
    /\ total_rounds = 0
    /\ matches_by_round = <<>>
    /\ completed_matches = {}
    /\ league_started = FALSE
    /\ standings = <<>>
    /\ handlers = EmptyBag
    /\ refereeFaults = {}
    /\ rcEmitted = [r \in 1..RoundsUniverse |-> 0]
    /\ lcEmitted = 0
    /\ annSent = [t \in AgentIdsUniverse \X (1..RoundsUniverse) |-> 0]
    /\ issuedPlayers = <<>>
    /\ issuedReferees = <<>>
    /\ ingested = {}
    /\ reports = 0
    /\ startReply = NoReply
    /\ lastUpdate = NoUpdate
    /\ updateBuilt = NoMessage
    /\ game = NoGame
    /\ wire = NoExchange
    /\ refereeState = NoReferee
    /\ player = NoPlayer
    /\ retry = NoCall

RetryStep(step) ==
    /\ step
    /\ UNCHANGED <<lmState, handlers, observations, game, wire, refereeState, player>>

NextRetry ==
    \/ \E via_send \in BOOLEAN : \E max_retries \in 0..MaxRetries :
          \E initial_delay \in {INITIAL_DELAY, 3 * INITIAL_DELAY} :
             RetryStep(retry_with_backoff(via_send, max_retries, initial_delay))
    \/ \E outcome \in FuncOutcomes : RetryStep(FuncEnds(outcome))
    \/ RetryStep(SleepEnds)

SpecRetry == InitRetry /\ [][NextRetry]_vars

\* ------------------------------------------------------------------ claims
\* a step in which a MATCH_RESULT_REPORT enters its handler
ReportArrives == reports' = reports + 1

\* a step in which a registration request is handled
RegistrationArrives ==
    Len(issuedPlayers') # Len(issuedPlayers) \/ Len(issuedReferees') # Len(issuedReferees)

\* C1: a MATCH_RESULT_REPORT with the match_id and result of a report that
\* was ingested before leaves every player's standing as it was and keeps
\* the match id in completed_matches.
C1_DuplicateReportIdempotent ==
    [][(ReportArrives /\ ingested' = ingested)
          => (standings' = standings /\ completed_matches' = completed_matches)]_vars

\* C2: ROUND_COMPLETED is emitted at most once for each round and
\* LEAGUE_COMPLETED at most once, over every interleaving of report handlers.
C2_CompletionsEmittedOnce ==
    /\ \A r \in 1..RoundsUniverse : rcEmitted[r] <= 1
    /\ lcEmitted <= 1

\* C3: LEAGUE_COMPLETED is emitted only in a state where completed_matches
\* is exactly the set of the scheduled match ids.
C3_LeagueCompletedCoversSchedule ==
    [][lcEmitted' > lcEmitted => completed_matches = ScheduledMatchIds]_vars

\* the league is running and no handler is in the middle of its work
RunningAtRest == league_started /\ lcEmitted = 0 /\ handlers = EmptyBag

RoundDone(r) ==
    \A j \in 1..Len(RoundMatches(r)) : RoundMatches(r)[j].match_id \in completed_matches

\* C4: while the league is running, current_round is the smallest round with
\* a match that is not completed: every round below it is done and it has
\* itself an uncompleted match.
C4_CurrentRoundIsSmallestOpen ==
    RunningAtRest =>
        /\ \A r \in 1..(current_round - 1) : RoundDone(r)
        /\ ~RoundDone(current_round)

\* C5: completed_matches is always a subset of the scheduled match ids,
\* whatever ids the reports carry and whether or not the league has
\* started, and it never loses an element.
C5_CompletedWithinSchedule ==
    [][/\ completed_matches' \subseteq ScheduledMatchIds'
       /\ completed_matches \subseteq completed_matches']_vars

\* C6: once LEAGUE_COMPLETED has been emitted, a report, a registration or a
\* START_LEAGUE that arrives changes nothing of the League Manager's state.
C6_NoMutationAfterCompletion ==
    [][(lcEmitted > 0 /\ (ReportArrives \/ RegistrationArrives))
          => lmState' = lmState]_vars

\* two players and a referee were registered when the league started, and
\* the referee has been sent the announcement of round 1
LeagueUnderWay ==
    /\ league_started
    /\ Len(standings) >= 2
    /\ Len(registered_referees) >= 1
    /\ annSent[<<RefereeIdOf(1), 1>>] > 0

Announces(a, n) == annSent'[<<a, n>>] > annSent[<<a, n>>]

\* C8: an agent is sent the announcement of round N before that of round
\* N+1, and round N+1 is announced only after ROUND_COMPLETED of round N.
C8_AnnouncementsInRoundOrder ==
    [][\A a \in AgentIdsUniverse : \A n \in 1..RoundsUniverse :
          Announces(a, n) =>
              /\ \A m \in (n + 1)..RoundsUniverse : annSent[<<a, m>>] = 0
              /\ n > 1 => rcEmitted[n - 1] > 0]_vars

\* C9: a registration request received once the league has started adds
\* nothing to the registries or the token table.
C9_NoRegistrationAfterStart ==
    [][league_started =>
          /\ registered_players' = registered_players
          /\ registered_referees' = registered_referees
          /\ auth_tokens' = auth_tokens]_vars

\* C10: registered ids are unique, the k-th registration of a kind got the
\* id with suffix k, no registration overwrote a record, and auth_tokens
\* holds the token of every registered id and of no other id.
C10_RegistryIdsAndTokens ==
    /\ \A i, j \in 1..Len(registered_players) :
          i # j => registered_players[i].agent_id # registered_players[j].agent_id
    /\ \A i, j \in 1..Len(registered_referees) :
          i # j => registered_referees[i].agent_id # registered_referees[j].agent_id
    /\ Keys(registered_players) \cap Keys(registered_referees) = {}
    /\ Len(registered_players) = Len(issuedPlayers)
    /\ Len(registered_referees) = Len(issuedReferees)
    /\ \A k \in 1..Len(issuedPlayers) :
          /\ issuedPlayers[k].id = "P" \o Format02d(k)
          /\ registered_players[k].agent_id = issuedPlayers[k].id
          /\ registered_players[k].contact_endpoint = issuedPlayers[k].endpoint
          /\ auth_tokens[issuedPlayers[k].id] = issuedPlayers[k].token
    /\ \A k \in 1..Len(issuedReferees) :
          /\ issuedReferees[k].id = "REF" \o Format02d(k)
          /\ registered_referees[k].agent_id = issuedReferees[k].id
          /\ registered_referees[k].contact_endpoint = issuedReferees[k].endpoint
          /\ auth_tokens[issuedReferees[k].id] = issuedReferees[k].token
    /\ DOMAIN auth_tokens = Keys(registered_players) \cup Keys(registered_referees)

\* every agent the bounds allow is registered, the last player after the
\* league had started with two
C10_Witness ==
    /\ Len(registered_players) = MaxPlayers
    /\ Len(registered_referees) = MaxReferees
    /\ league_started
    /\ Len(standings) < Len(registered_players)

\* the (id, token, endpoint) of every registration response so far
Issued == {issuedPlayers[k] : k \in 1..Len(issuedPlayers)}
              \cup {issuedReferees[k] : k \in 1..Len(issuedReferees)}

\* C11: for every registered id, validation succeeds for exactly the token
\* of its registration response, at any later time; the token of another id
\* (or any other token) is not accepted.
C11_TokenValidForItsIdOnly ==
    \A r \in Issued : \A t \in TokensUniverse :
        validate_auth_token(auth_tokens, r.id, t) <=> (t = r.token)

\* all agents are registered and the league has been played to its end
C11_Witness ==
    /\ Len(issuedPlayers) >= 2
    /\ Len(issuedReferees) >= 1
    /\ lcEmitted > 0

\* C12: a LEAGUE_QUERY without the token issued to its sender id is answered
\* with LEAGUE_ERROR E012 / AUTH_TOKEN_INVALID / LEAGUE_QUERY and the
\* provided token in the context, returns no data and changes no state.
C12_BadTokenQueryRejected ==
    \A q \in Queries :
        (q.auth_token = NoToken \/ ~TokenMatches(q)) =>
            LET r == handle_league_query(q)
            IN  /\ r.reply.message_type = "LEAGUE_ERROR"
                /\ r.reply.error_code = "E012"
                /\ r.reply.error_description = "AUTH_TOKEN_INVALID"
                /\ r.reply.original_message_type = "LEAGUE_QUERY"
                /\ r.reply.context.provided_token = q.auth_token
                /\ DOMAIN r.reply \cap {"standings", "next_match", "data"} = {}
                /\ r.state = ManagerState

\* standings exist and a match is open, P01 holds its token, and a query of
\* P01 with another agent's token is refused while its own token is served
C12_Witness ==
    /\ league_started
    /\ ingested # {}
    /\ PlayerIdOf(1) \in DOMAIN auth_tokens
    /\ PlayerIdOf(2) \in DOMAIN auth_tokens
    /\ LET q == [sender |-> <<"player", PlayerIdOf(1)>>,
                 auth_token |-> auth_tokens[PlayerIdOf(2)],
                 query_type |-> "GET_STANDINGS", player_id |-> PlayerIdOf(1)]
           ok == [q EXCEPT !.auth_token = auth_tokens[PlayerIdOf(1)]]
       IN  /\ handle_league_query(q).reply.message_type = "LEAGUE_ERROR"
           /\ handle_league_query(ok).reply.message_type = "LEAGUE_QUERY_RESPONSE"
           /\ Len(handle_league_query(ok).reply.standings[1]) >= 2

\* no ROUND_ANNOUNCEMENT has been posted and none is being posted
NothingAnnounced ==
    /\ \A t \in DOMAIN annSent : annSent[t] = 0
    /\ \A h \in Suspended : h.pc \notin {"announce_referees", "announce_players"}

\* C13: START_LEAGUE with fewer than two players registered is answered
\* with LEAGUE_ERROR E005 NOT_ENOUGH_PLAYERS and starts nothing (league not
\* started, no schedule, no standings, no announcement); a league never
\* starts with fewer than two players, and from any state not yet started a
\* START_LEAGUE with two or more players starts the league.
C13_StartRefusedBelowTwoPlayers ==
    /\ startReply.error_code # "" =>
          /\ startReply.error_code = "E005"
          /\ startReply.error_description = "NOT_ENOUGH_PLAYERS"
          /\ startReply.original_message_type = "START_LEAGUE"
          /\ startReply.context.registered_players = Len(registered_players)
          /\ Len(registered_players) < 2
    /\ ~league_started =>
          /\ matches_by_round = <<>>
          /\ total_rounds = 0
          /\ current_round = 0
          /\ standings = <<>>
          /\ NothingAnnounced
    /\ league_started => Len(standings) >= 2
    /\ (~league_started /\ Len(registered_players) >= 2 /\ CanAccept) =>
          ENABLED (handle_start_league /\ league_started')

\* a START_LEAGUE has just been refused with one player registered
C13_Witness ==
    /\ startReply.error_code = "E005"
    /\ Len(registered_players) = 1
    /\ ~league_started

\* the scheduled matches, round by round: their ids and their two players
ScheduledPairings ==
    [r \in DOMAIN matches_by_round |->
        [i \in DOMAIN matches_by_round[r] |->
            <<matches_by_round[r][i].match_id,
              matches_by_round[r][i].player_A_id,
              matches_by_round[r][i].player_B_id>>]]

\* C14: once the league has started no step (a registration, an
\* announcement, a report, a further START_LEAGUE) adds, removes or changes
\* a scheduled match, its id or its players, nor changes total_rounds; and a
\* START_LEAGUE received by a started league is answered with LEAGUE_STATUS
\* and leaves matches_by_round, total_rounds, current_round,
\* completed_matches and standings as they were.
C14_ScheduleFixedAtStart ==
    [][league_started =>
          /\ ScheduledPairings' = ScheduledPairings
          /\ total_rounds' = total_rounds
          /\ league_started'
          /\ startReply'.message_type # "" =>
                /\ startReply'.message_type = "LEAGUE_STATUS"
                /\ startReply'.current_round = current_round
                /\ startReply'.total_rounds = total_rounds
                /\ UNCHANGED <<matches_by_round, total_rounds, current_round,
                               completed_matches, standings>>]_vars

\* a started league that accepted a registration after its start has just
\* answered a further START_LEAGUE
C14_Witness ==
    /\ league_started
    /\ startReply.message_type = "LEAGUE_STATUS"
    /\ Len(registered_players) > Len(standings)

\* the positions <<round, index>> of the matches of a schedule
MatchSlots(schedule) ==
    UNION {{<<r, j>> : j \in DOMAIN schedule[r]} : r \in DOMAIN schedule}

IdsOf(player_ids) == {player_ids[k] : k \in DOMAIN player_ids}

\* the matches of the schedule played by exactly the two players a and b
MatchesBetween(schedule, a, b) ==
    {s \in MatchSlots(schedule) :
        {schedule[s[1]][s[2]].player_A_id, schedule[s[1]][s[2]].player_B_id} = {a, b}}

EveryPairOnce(player_ids, schedule) ==
    /\ \A a, b \in IdsOf(player_ids) :
          a # b => Cardinality(MatchesBetween(schedule, a, b)) = 1
    /\ \A s \in MatchSlots(schedule) :
          /\ schedule[s[1]][s[2]].player_A_id # schedule[s[1]][s[2]].player_B_id
          /\ schedule[s[1]][s[2]].player_A_id \in IdsOf(player_ids)
          /\ schedule[s[1]][s[2]].player_B_id \in IdsOf(player_ids)
    /\ 2 * Cardinality(MatchSlots(schedule)) = Len(player_ids) * (Len(player_ids) - 1)
    /\ Len(player_ids) = 2 => Cardinality(MatchSlots(schedule)) = 1
    /\ Len(player_ids) = 3 => Cardinality(MatchSlots(schedule)) = 3
    /\ Len(player_ids) = 4 => Cardinality(MatchSlots(schedule)) = 6
    /\ \A a \in IdsOf(player_ids) :
          \E s \in MatchSlots(schedule) :
             a \in {schedule[s[1]][s[2]].player_A_id, schedule[s[1]][s[2]].player_B_id}

\* C15: for every list of n >= 2 distinct player ids, the schedule that
\* start_league stores from generate_schedule holds every unordered pair of
\* the players in exactly one match, no match of a player against itself,
\* n*(n-1)/2 matches in all, and every player in some match.
C15_EveryPairExactlyOnce ==
    [][(~league_started /\ league_started') =>
          \A ids \in PlayerIdLists :
             (Len(ids) >= 2 /\ start_league(ids)) =>
                EveryPairOnce(ids, matches_by_round')]_vars

\* a league of four players has been scheduled: six matches
C15_Witness ==
    /\ league_started
    /\ Cardinality(MatchSlots(matches_by_round)) = 6
    /\ handlers = EmptyBag

\* the round capacity c of n players, and the round of the j-th pair
Capacity(n) == IF n % 2 = 0 THEN n \div 2 ELSE (n - 1) \div 2

Ceil(j, c) == (j + c - 1) \div c

PackedInOrder(player_ids, schedule, total) ==
    LET n == Len(player_ids)
        c == Capacity(n)
        pairs == combinations(player_ids)
    IN  /\ \A j \in 1..Len(pairs) :
              LET r == Ceil(j, c)
                  pos == j - (r - 1) * c
              IN  /\ r \in DOMAIN schedule
                  /\ pos \in DOMAIN schedule[r]
                  /\ schedule[r][pos].match_id = MatchIdOf(r, j)
                  /\ schedule[r][pos].match_id =
                        "R" \o ToString(r) \o "M" \o ToString(j)
                  /\ schedule[r][pos].player_A_id = pairs[j][1]
                  /\ schedule[r][pos].player_B_id = pairs[j][2]
        /\ Cardinality(MatchSlots(schedule)) = Len(pairs)
        /\ Cardinality(MatchIdsOf(schedule)) = Cardinality(MatchSlots(schedule))
        /\ \A r \in DOMAIN schedule :
              /\ Len(schedule[r]) >= 1
              /\ r < Len(schedule) => Len(schedule[r]) = c
        /\ total = Len(schedule)
        /\ total = IF n % 2 = 0 THEN n - 1 ELSE n

\* C16: for every list of n >= 2 distinct player ids, the j-th pair of the
\* lexicographic enumeration is the match at round ceil(j/c) with id
\* R{ceil(j/c)}M{j}, c being floor(n/2) for even and floor((n-1)/2) for odd
\* n; the schedule holds nothing else, its match ids are distinct, every
\* round but the last holds c matches, no round is empty, and total_rounds
\* is the number of rounds: n-1 for even n, n for odd n.
C16_PairsPackedInOrder ==
    [][(~league_started /\ league_started') =>
          \A ids \in PlayerIdLists :
             (Len(ids) >= 2 /\ start_league(ids)) =>
                PackedInOrder(ids, matches_by_round', total_rounds')]_vars

\* five players have been scheduled: five rounds of two, the last match
\* being the tenth of the schedule
C16_Witness ==
    /\ league_started
    /\ total_rounds = 5
    /\ Len(matches_by_round) = 5
    /\ Len(matches_by_round[5]) = 2
    /\ matches_by_round[5][2].match_id = "R5M10"

PlayersOf(match) == {match.player_A_id, match.player_B_id}

\* some round of the schedule holds two matches with a common player
PlayerTwiceInARound(schedule) ==
    \E r \in DOMAIN schedule :
       \E i, k \in DOMAIN schedule[r] :
          /\ i < k
          /\ PlayersOf(schedule[r][i]) \cap PlayersOf(schedule[r][k]) # {}

\* C17: for every list of n >= 4 distinct player ids (up to
\* MaxSchedulePlayers) the schedule has a round with two matches that share
\* a player; for P01..P04 round 1 holds P01-P02 and P01-P03.
C17_RoundMayRepeatAPlayer ==
    [][(~league_started /\ league_started') =>
          \A ids \in PlayerIdLists :
             (Len(ids) >= 4 /\ start_league(ids)) =>
                /\ PlayerTwiceInARound(matches_by_round')
                /\ ids = PlayerIdsUpTo(4) =>
                      /\ Len(matches_by_round'[1]) = 2
                      /\ PlayersOf(matches_by_round'[1][1]) = {PlayerIdOf(1), PlayerIdOf(2)}
                      /\ PlayersOf(matches_by_round'[1][2]) = {PlayerIdOf(1), PlayerIdOf(3)}]_vars

\* P01..P04 have been scheduled and round 1 holds two matches of P01
C17_Witness ==
    /\ league_started
    /\ total_rounds = 3
    /\ Len(matches_by_round[1]) = 2
    /\ matches_by_round[1][1].player_A_id = PlayerIdOf(1)
    /\ matches_by_round[1][2].player_A_id = PlayerIdOf(1)
    /\ matches_by_round[1][1].player_B_id = PlayerIdOf(2)
    /\ matches_by_round[1][2].player_B_id = PlayerIdOf(3)

\* the endpoints of the matches of round r are those of the registries:
\* the referee of the i-th match (0-based) is referee i mod R
AssignedInOrder(r) ==
    LET matches == RoundMatches(r)
        R == Len(registered_referees)
    IN  \A i \in 0..(Len(matches) - 1) :
           LET match == matches[i + 1]
           IN  /\ match.referee_endpoint =
                     registered_referees[(i % R) + 1].contact_endpoint
               /\ match.player_A_id \in Keys(registered_players)
               /\ match.player_B_id \in Keys(registered_players)
               /\ match.player_A_endpoint =
                     DictGet(registered_players, match.player_A_id).contact_endpoint
               /\ match.player_B_endpoint =
                     DictGet(registered_players, match.player_B_id).contact_endpoint
               /\ match.referee_endpoint # NoEndpoint
               /\ match.player_A_endpoint # NoEndpoint
               /\ match.player_B_endpoint # NoEndpoint

\* the step builds the ROUND_ANNOUNCEMENT of round r and posts it to the
\* first referee
AnnouncementBuilt(r) ==
    /\ Len(registered_referees) >= 1
    /\ annSent'[<<registered_referees[1].agent_id, r>>]
          > annSent[<<registered_referees[1].agent_id, r>>]

\* C18: with R >= 1 referees registered, the step that builds the
\* ROUND_ANNOUNCEMENT of a round leaves the i-th match of the round
\* (0-based) with the endpoint of referee i mod R and with the registered
\* endpoints of its two players, none of the three missing.
C18_EndpointsAssignedInOrder ==
    [][\A r \in 1..AnnounceRounds :
          AnnouncementBuilt(r) => AssignedInOrder(r)']_vars

\* a round of two matches is being announced with two referees registered:
\* its second match has the second referee
C18_Witness ==
    /\ Len(registered_referees) = 2
    /\ \E h \in Suspended :
          /\ h.pc \in {"announce_referees", "announce_players"}
          /\ h.round = 2
          /\ Len(RoundMatches(2)) = 2
          /\ RoundMatches(2)[2].referee_endpoint = registered_referees[2].contact_endpoint
          /\ RoundMatches(2)[1].referee_endpoint = registered_referees[1].contact_endpoint

\* the players of the league: those that were registered when it started
ScheduledPlayers == {standings[k].player_id : k \in 1..Len(standings)}

\* handler h, which was posting the ROUND_ANNOUNCEMENT of round h.round,
\* is over in this step (it returned or an exception left it)
AnnouncementEnds(h) ==
    /\ h.pc \in {"announce_referees", "announce_players"}
    /\ Returns(h)

\* C19: when a handler's announcement of a round is over, the
\* ROUND_ANNOUNCEMENT of that round has been posted to every player that
\* was registered when the league started and, when the handler had
\* reached the players, to every registered referee of its loop: the
\* fan-out reaches all its targets whatever happens to single posts.
C19_AnnouncementReachesEveryTarget ==
    [][\A h \in Suspended :
          AnnouncementEnds(h) =>
             /\ h.pc = "announce_players"
             /\ \A p \in ScheduledPlayers : annSent[<<p, h.round>>] >= 1]_vars

StandingIds(st) == {st[k].player_id : k \in 1..Len(st)}

\* the counters of one player before and after a result it took part in
CountedOnce(before, after, winner, score) ==
    LET p == before.player_id
        won == winner = p
        drew == winner = None
    IN  /\ after.player_id = p
        /\ after.played = before.played + 1
        /\ after.wins = before.wins + (IF won THEN 1 ELSE 0)
        /\ after.draws = before.draws + (IF ~won /\ drew THEN 1 ELSE 0)
        /\ after.losses = before.losses + (IF ~won /\ ~drew THEN 1 ELSE 0)
        /\ after.points = before.points +
              (IF p \in DOMAIN score THEN score[p]
               ELSE IF won THEN 3 ELSE IF drew THEN 1 ELSE 0)

SameCounters(before, after) ==
    /\ after.player_id = before.player_id
    /\ after.played = before.played
    /\ after.wins = before.wins
    /\ after.draws = before.draws
    /\ after.losses = before.losses
    /\ after.points = before.points

\* C20: a call of update_match_result for two different players that both
\* have standings adds 1 to the played of each and to exactly one of its
\* wins (winner is the player), draws (winner is null) or losses
\* (otherwise), adds score[player] to its points (3 / 1 / 0 for win / draw
\* / loss when the key is missing), and leaves the counters of every other
\* player as they were.
C20_ResultCountedOncePerPlayer ==
    [][(/\ lastUpdate'.called
        /\ lastUpdate'.player_A_id # lastUpdate'.player_B_id
        /\ {lastUpdate'.player_A_id, lastUpdate'.player_B_id} \subseteq StandingIds(standings))
       => /\ Len(standings') = Len(standings)
          /\ \A k \in 1..Len(standings) :
                IF standings[k].player_id
                      \in {lastUpdate'.player_A_id, lastUpdate'.player_B_id}
                THEN CountedOnce(standings[k], standings'[k],
                                 lastUpdate'.winner, lastUpdate'.score)
                ELSE SameCounters(standings[k], standings'[k])]_vars

\* a result won by player B whose score dict has no entry for player A has
\* been counted while a third player has standings
C20_Witness ==
    /\ lastUpdate.called
    /\ lastUpdate.player_A_id # lastUpdate.player_B_id
    /\ {lastUpdate.player_A_id, lastUpdate.player_B_id} \subseteq StandingIds(standings)
    /\ Len(standings) = 3
    /\ lastUpdate.winner = lastUpdate.player_B_id
    /\ DOMAIN lastUpdate.score = {lastUpdate.player_B_id}
    /\ lastUpdate.score[lastUpdate.player_B_id] = 2

\* the order of the ranking: more points, then more wins, then fewer
\* losses, then the smaller player id
RanksBefore(a, b) ==
    \/ a.points > b.points
    \/ a.points = b.points /\ a.wins > b.wins
    \/ a.points = b.points /\ a.wins = b.wins /\ a.losses < b.losses
    \/ /\ a.points = b.points /\ a.wins = b.wins /\ a.losses = b.losses
       /\ PlayerNumber(a.player_id) < PlayerNumber(b.player_id)

RankedInOrder(st) ==
    /\ {st[k].rank : k \in 1..Len(st)} = 1..Len(st)
    /\ \A i, j \in 1..Len(st) :
          st[i].rank < st[j].rank <=> RanksBefore(st[i], st[j])
    /\ \A i, j \in 1..Len(st) : st[i].rank = 1 => st[i].points >= st[j].points
    /\ \A k \in 1..Len(st) : get_standings(st)[k].rank = k

\* C21: after the ingestion of any MATCH_RESULT_REPORT the ranks of the
\* standings are exactly 1..N, ordered by (-points, -wins, losses,
\* player_id); the rank-1 standing has the most points and get_standings
\* lists the standings in rank order.
C21_RanksDenseAfterIngestion ==
    [][reports' > reports => RankedInOrder(standings')]_vars

\* the standing of player_id as an update lists it
ListedStanding(listing, player_id) ==
    listing[CHOOSE k \in 1..Len(listing) : listing[k].player_id = player_id]

\* C22: the LEAGUE_STANDINGS_UPDATE built for a MATCH_RESULT_REPORT is
\* built in a state where the report is fully applied: its match id is in
\* completed_matches, the standings it carries are the standings of the
\* repository after the update, and, when the report names two players
\* with standings, they list each of the two with one more game played
\* than before the report and with the ranks recomputed.
C22_UpdateCarriesAppliedResult ==
    [][updateBuilt'.message_type # "" =>
          /\ reports' = reports + 1
          /\ updateBuilt'.report \in completed_matches'
          /\ updateBuilt'.standings = get_standings(standings')
          /\ (/\ lastUpdate'.called
              /\ lastUpdate'.player_A_id # lastUpdate'.player_B_id
              /\ {lastUpdate'.player_A_id, lastUpdate'.player_B_id}
                    \subseteq StandingIds(standings))
             => /\ \A k \in 1..Len(standings) :
                      standings[k].player_id
                            \in {lastUpdate'.player_A_id, lastUpdate'.player_B_id}
                      => ListedStanding(updateBuilt'.standings,
                                        standings[k].player_id).played
                            = standings[k].played + 1
                /\ RankedInOrder(updateBuilt'.standings)]_vars

\* an update has been built for a report of a scheduled match that the
\* first player won, and it lists that player first with three points
C22_Witness ==
    /\ updateBuilt.message_type = "LEAGUE_STANDINGS_UPDATE"
    /\ lastUpdate.called
    /\ lastUpdate.winner = lastUpdate.player_A_id
    /\ Len(updateBuilt.standings) = 3
    /\ updateBuilt.standings[1].player_id = lastUpdate.player_A_id
    /\ updateBuilt.standings[1].points = 3
    /\ updateBuilt.report \in completed_matches

\* the handler of a MATCH_RESULT_REPORT for match_id has not returned yet:
\* its MATCH_RESULT_ACK, the value it returns, has not been emitted
AckPending(match_id) ==
    \E h \in Suspended : h.mtype = "MATCH_RESULT_REPORT" /\ h.match_id = match_id

\* C23: the LEAGUE_STANDINGS_UPDATE of a MATCH_RESULT_REPORT is emitted
\* after the MATCH_RESULT_ACK of that report: in the state in which the
\* update has been built and its first post is awaited, the handler of the
\* report has already returned its acknowledgement.
C23_UpdateFollowsAck ==
    [][updateBuilt'.message_type # "" =>
          \A match_id \in completed_matches' :
             updateBuilt'.report = match_id => ~AckPending(match_id)']_vars

\* the for loop of suspended handler h finds its dict changed when its post
\* returns: RuntimeError leaves the handler, and main.py:92-98 answers the
\* request with a JSON-RPC error
RaisesRuntimeError(h) ==
    \/ h.pc = "announce_referees" /\ DictChanged(registered_referees, h)
    \/ /\ h.pc \in {"announce_players", "standings_update", "round_completed"}
       /\ DictChanged(registered_players, h)

\* C24: the handler of every MATCH_RESULT_REPORT ends by returning
\* MATCH_RESULT_ACK for the report's match id, no exception leaving it, and
\* at that moment the match id is in completed_matches.
C24_EveryReportAcknowledged ==
    [][\A h \in Suspended :
          (h.mtype = "MATCH_RESULT_REPORT" /\ Returns(h)) =>
             /\ ~RaisesRuntimeError(h)
             /\ h.match_id \in completed_matches]_vars

\* the GET_NEXT_MATCH query of registered player player_id about itself
OwnNextMatchQuery(player_id) ==
    [sender |-> <<player_id>>, auth_token |-> TokenOf(player_id),
     query_type |-> "GET_NEXT_MATCH", player_id |-> player_id]

\* the rounds up to the current one in which player_id has a scheduled
\* match that is not completed
OpenRounds(player_id) ==
    {r \in DOMAIN matches_by_round :
        /\ r <= current_round
        /\ \E i \in DOMAIN matches_by_round[r] :
              /\ player_id \in PlayersOf(matches_by_round[r][i])
              /\ matches_by_round[r][i].match_id \notin completed_matches}

\* the earliest of them: lowest round, then schedule order in the round
EarliestOpenMatch(player_id) ==
    IF OpenRounds(player_id) = {} THEN <<>>
    ELSE LET r == CHOOSE x \in OpenRounds(player_id) :
                     \A y \in OpenRounds(player_id) : x <= y
             i == CHOOSE x \in DOMAIN matches_by_round[r] :
                     /\ player_id \in PlayersOf(matches_by_round[r][x])
                     /\ matches_by_round[r][x].match_id \notin completed_matches
                     /\ \A y \in 1..(x - 1) :
                           \/ player_id \notin PlayersOf(matches_by_round[r][y])
                           \/ matches_by_round[r][y].match_id \in completed_matches
         IN  <<matches_by_round[r][i]>>

\* C25: in every state, the authenticated GET_NEXT_MATCH query of a
\* registered player is answered with LEAGUE_QUERY_RESPONSE carrying the
\* earliest scheduled match of the player that is not completed and lies
\* in the current round or an earlier one (none when there is none), and
\* the handler leaves the League Manager state as it was.
C25_NextMatchIsEarliestOpen ==
    \A player_id \in Keys(registered_players) :
       LET outcome == handle_league_query(OwnNextMatchQuery(player_id))
       IN  /\ outcome.reply.message_type = "LEAGUE_QUERY_RESPONSE"
           /\ outcome.reply.next_match = EarliestOpenMatch(player_id)
           /\ outcome.state = ManagerState


\* ------------------------------------------------------------------- C26
\* referee handlers.py:70-78: the active set and its cap are the attributes
\* active_games and max_concurrent_matches of the Referee
HasActiveSet == {"active_games", "max_concurrent_matches"} \subseteq RefereeAttributes

\* referee handlers.py:54-96 as the claim reads them: the referee registered
\* as referee_id has taken every announcement handed to it match by match,
\* starting the assigned match below the cap and skipping it at the cap
StartedOrSkipped(referee_id) == HasActiveSet \/ referee_id \notin refereeFaults

SentTypes == {game.sent[i].message_type : i \in 1..Len(game.sent)}

\* the player joined: the invitation was answered, with accept = true
Joined(ack) == ack.returned /\ ack.accept

\* the CHOOSE_PARITY_RESPONSE is there and its parity_choice is a parity
Chose(response) == response.returned /\ response.parity_choice \in {"even", "odd"}

\* an invitation whose outcome the task has seen did not bring the player in
InvitationFailed ==
    \/ game.pc # "invitation_A" /\ ~Joined(game.ack_A)
    \/ game.pc \notin {"invitation_A", "invitation_B"} /\ ~Joined(game.ack_B)

\* a choice call whose outcome the task has seen brought no parity
ChoiceFailed ==
    /\ game.pc \notin {"invitation_A", "invitation_B", "choice_A"}
    /\ SentTypes \cap {"CHOOSE_PARITY_CALL"} # {}
    /\ \/ ~Chose(game.response_A)
       \/ game.pc # "choice_B" /\ ~Chose(game.response_B)

\* the League Manager has taken nothing from the match
UntouchedByMatch ==
    /\ game.match_id \notin completed_matches
    /\ standings = <<>>
    /\ ingested = {}

\* C27: a match one of whose GAME_INVITATIONs fails, times out or is
\* answered with accept = false sends no CHOOSE_PARITY_CALL, no GAME_OVER
\* and no MATCH_RESULT_REPORT; a match one of whose CHOOSE_PARITY_RESPONSEs
\* is missing or carries a missing or invalid parity_choice (one that is not
\* even or odd) sends no GAME_OVER and no MATCH_RESULT_REPORT; in both cases
\* the League Manager's standings and completed_matches are as they were.
C27_AbortedMatchLeavesNoTrace ==
    game.pc # "idle" =>
       /\ InvitationFailed =>
             /\ SentTypes \cap {"CHOOSE_PARITY_CALL", "GAME_OVER", "MATCH_RESULT_REPORT"} = {}
             /\ UntouchedByMatch
       /\ ChoiceFailed =>
             /\ SentTypes \cap {"GAME_OVER", "MATCH_RESULT_REPORT"} = {}
             /\ UntouchedByMatch


\* ------------------------------------------------------------------- C28
\* play_game has returned a GameResult for two choices that are parities
PlayedValidChoices ==
    /\ game.pc # "idle"
    /\ game.game_result.raised = ""
    /\ \A p \in DOMAIN game.game_result.choices :
          game.game_result.choices[p] \in {"even", "odd"}

\* the parity of the number that was drawn
DrawnParity == IF game.game_result.drawn_number % 2 = 0 THEN "even" ELSE "odd"

\* the result gives player_id the win: 3 points for it, 0 for the other
WinFor(player_id) ==
    /\ game.game_result.winner = player_id
    /\ game.game_result.choices[player_id] = DrawnParity
    /\ \A p \in DOMAIN game.game_result.score :
          game.game_result.score[p] = IF p = player_id THEN 3 ELSE 0

Malformed(data) ==
    \/ ~data.dict
    \/ REQUIRED_FIELDS \ data.present # {}
    \/ data.protocol # PROTOCOL_VERSION
    \/ ~(data.timestamp.is_str /\ EndsWith(data.timestamp.text, "Z"))

\* validate_message has run on the envelope
Validated == wire.stage \in {"validated", "rejected"}

\* C29: validate_message rejects exactly the envelopes that are not a
\* structured object, lack one of protocol, message_type, sender, timestamp,
\* conversation_id, carry a protocol other than "league.v2", or carry a
\* timestamp that does not end in Z; it accepts every other envelope, and it
\* accepts every envelope built by create_message.
C29_RejectsExactlyMalformed ==
    Validated =>
       /\ wire.stage = "rejected" <=> Malformed(wire.data)
       /\ wire.built => wire.stage = "validated"


\* ------------------------------------------------------------------- C30
\* a handler has answered the request
Replied == wire.stage = "replied"

\* C30: every reply of a League Manager, Referee or Player handler carries
\* the conversation_id of the request it answers.
C30_ReplyEchoesConversationId ==
    Replied => wire.reply.conversation_id = wire.data.conversation_id


\* ------------------------------------------------------------------- C31
\* every match of the round the League Manager is in is in completed_matches
\* (handlers.py:378-384)
CurrentRoundPlayed ==
    \A i \in 1..Len(RoundMatches(current_round)) :
       RoundMatches(current_round)[i].match_id \in completed_matches

\* C31: the League Manager moves current_round on only when every match of
\* the round it leaves is in completed_matches, and by exactly one, also
\* when two MATCH_RESULT_REPORT handlers interleave at their awaited posts:
\* no round is skipped.
C31_RoundAdvancesOnlyWhenComplete ==
    [][(current_round >= 1 /\ current_round' # current_round)
          => (current_round' = current_round + 1 /\ CurrentRoundPlayed)]_vars


FullExchange(g) ==
    <<Posted("GAME_INVITATION", g.player_A_id), Posted("GAME_INVITATION", g.player_B_id),
      Posted("CHOOSE_PARITY_CALL", g.player_A_id), Posted("CHOOSE_PARITY_CALL", g.player_B_id),
      Posted("GAME_OVER", g.player_A_id), Posted("GAME_OVER", g.player_B_id),
      Posted("MATCH_RESULT_REPORT", "league_manager")>>

ReportsPosted ==
    IF game = NoGame THEN {}
    ELSE {i \in 1..Len(game.sent) : game.sent[i].message_type = "MATCH_RESULT_REPORT"}

\* C33: a match task that reports has posted GAME_INVITATION to both
\* players, then CHOOSE_PARITY_CALL to both, then GAME_OVER to both, then
\* MATCH_RESULT_REPORT, and nothing else; it posts at most one report; and
\* the winner and the score the League Manager receives are those of the
\* one engine result the task holds, the one its GAME_OVER carried.
C33_ReportEndsFullExchange ==
    /\ Cardinality(ReportsPosted) <= 1
    /\ ReportsPosted # {} =>
          /\ game.sent = FullExchange(game)
          /\ game.game_result.raised = ""
          /\ \A r \in ingested :
                /\ r[1] = game.match_id
                /\ r[2].winner = game.game_result.winner
                /\ r[2].choices = <<game.player_A_id, game.player_B_id>>
                /\ r[2].points = <<game.game_result.score[game.player_A_id],
                                   game.game_result.score[game.player_B_id]>>
    /\ ReportsPosted = {} => ingested = {}

\* the report of a match player B won has reached the League Manager
C33_Witness ==
    /\ ReportsPosted # {}
    /\ game.pc = "returned"
    /\ game.game_result.winner = game.player_B_id
    /\ ingested # {}


\* ------------------------------------------------------------------- C34
HistoryOf(match_id) ==
    {i \in 1..Len(player.history) : player.history[i].match_id = match_id}

\* C34: for every match whose GAME_OVER the player has handled, its history
\* holds exactly one entry of that match; the entry's opponent is the
\* opponent_id of the GAME_INVITATION received for the match, its choices
\* are those of game_result.choices for the player and for that opponent,
\* and won says whether winner_player_id is the player; also when the
\* exchanges of two matches interleave.
C34_HistoryEntryMatchesItsMatch ==
    \A m \in PlayerMatchIds :
       player.over[m] # NoGameResult =>
          /\ Cardinality(HistoryOf(m)) = 1
          /\ \A i \in HistoryOf(m) :
                /\ player.history[i].opponent = player.invited[m]
                /\ player.history[i].my_choice = player.over[m].choices[player.player_id]
                /\ player.history[i].opponent_choice = player.over[m].choices[player.invited[m]]
                /\ player.history[i].won = (player.over[m].winner = player.player_id)


\* ------------------------------------------------------------------- C35
\* C35: the League Manager answers START_LEAGUE with LEAGUE_STATUS without
\* waiting for the delivery of ROUND_ANNOUNCEMENT to be answered: its
\* START_LEAGUE handler is never suspended in a post of the announcement.
C35_StartDoesNotAwaitAnnouncement ==
    \A h \in Suspended :
       h.mtype = "START_LEAGUE" => h.pc \notin {"announce_referees", "announce_players"}


\* ------------------------------------------------------------------- C36
\* C36: in every state from the start of the league on, also before the
\* first result is reported, the ranks of the N standings are exactly 1..N.
C36_RanksDenseFromStart ==
    league_started =>
       {standings[k].rank : k \in 1..Len(standings)} = 1..Len(standings)


\* ------------------------------------------------------------------- C37
\* an envelope the League Manager cannot act on: it does not pass the
\* validation of the envelope (not an object, a required field missing,
\* another protocol, a timestamp that is no string or has neither Z at its
\* end nor +00:00 in it), or its message_type is none the League Manager
\* has a handler for
Unacceptable(data) ==
    \/ ~data.dict
    \/ \E f \in REQUIRED_FIELDS : f \notin data.present
    \/ data.protocol # "league.v2"
    \/ ~data.timestamp.is_str
    \/ /\ data.timestamp.text[Len(data.timestamp.text)] # "Z"
       /\ \A i \in 1..Len(data.timestamp.text) : data.timestamp.text[i] # "+00:00"
    \/ data.message_type \notin
          {"REFEREE_REGISTER_REQUEST", "LEAGUE_REGISTER_REQUEST", "MATCH_RESULT_REPORT",
           "LEAGUE_QUERY", "START_LEAGUE"}

\* C37: the receipt of a message that fails the validation of its envelope,
\* or whose message_type the League Manager has no handler for, is answered
\* with an error and leaves the registries, the tokens, the schedule,
\* current_round, completed_matches and the standings as they were.
C37_UnacceptableMessageChangesNothing ==
    [][\A data \in DispatchEnvelopes :
          (Unacceptable(data) /\ LMReceive(data))
             => /\ UNCHANGED lmState
                /\ wire'.stage = "rejected"
                /\ wire'.error \in {"MessageError", "AttributeError", "ValueError"}]_vars

\* an envelope was turned down while the league was running with a result
\* already counted
C37_Witness ==
    /\ wire.stage = "rejected"
    /\ wire.error = "ValueError"
    /\ league_started
    /\ completed_matches # {}


\* ------------------------------------------------------------------- C38
\* the delay before attempt i + 1: the initial delay doubled i - 1 times,
\* 10 s at most
RECURSIVE Doubled(_, _)
Doubled(d, n) == IF n = 0 THEN d ELSE Doubled(2 * d, n - 1)

BackoffDelay(i) ==
    IF Doubled(retry.initial_delay, i - 1) > 10 THEN 10
    ELSE Doubled(retry.initial_delay, i - 1)

Calls == Len(retry.outcomes) + (IF retry.pc = "calling" THEN 1 ELSE 0)

\* C38: retry_with_backoff calls the wrapped function at most max_retries
\* + 1 times (4 with the defaults) and not again after a success; it waits
\* 1 s, 2 s, 4 s between the attempts, each delay min(previous * 2, 10 s),
\* and never after the last attempt; it returns the result of the first
\* success, raises the transient failure again when the attempts are used
\* up, and lets another failure through at once; send_message_with_retry
\* returns no response instead of raising.
C38_RetryBoundedWithBackoff ==
    retry # NoCall =>
       /\ Calls <= retry.max_retries + 1
       /\ retry.max_retries = DEFAULT_MAX_RETRIES => Calls <= 4
       /\ \A i \in 1..Len(retry.outcomes) - 1 : Transient(retry.outcomes[i])
       /\ Len(retry.slept) = (IF retry.pc = "sleeping" THEN Calls ELSE Calls - 1)
       /\ \A i \in 1..Len(retry.slept) : retry.slept[i] = BackoffDelay(i)
       /\ (retry.initial_delay = 1 /\ Len(retry.slept) = 3) => retry.slept = <<1, 2, 4>>
       /\ retry.pc = "sleeping" => Transient(retry.outcomes[Len(retry.outcomes)])
       /\ retry.pc \in {"returned", "raised"} =>
             LET last == retry.outcomes[Len(retry.outcomes)]
             IN  /\ last = "response" => retry.pc = "returned" /\ retry.result = "response"
                 /\ Transient(last) => Calls = retry.max_retries + 1
                 /\ (last # "response" /\ ~retry.via_send) =>
                       retry.pc = "raised" /\ retry.result = last
                 /\ (last # "response" /\ retry.via_send) =>
                       retry.pc = "returned" /\ retry.result = None

\* four attempts 3 s, 6 s and 10 s apart, the last of which failed too
C38_Witness ==
    /\ retry # NoCall
    /\ retry.pc = "raised"
    /\ retry.slept = <<3, 6, 10>>
    /\ retry.result = "HTTPStatusError"


\* ------------------------------------------------------------------- C40
\* C40: in whatever order the players register, the id a player uses for
\* itself (in game_result.choices, against winner_player_id, in its sender
\* field) is the id the League Manager has assigned to it and uses in the
\* registry, the schedule, the standings and the token table.
C40_OwnIdIsAssignedId ==
    \A i \in 1..Len(registered_players) :
       \A k \in 1..MaxPlayers :
          registered_players[i].contact_endpoint = EndpointOf(PlayerPort(k))
             => registered_players[i].agent_id = OwnPlayerId(k)

====
